---------------------------- MODULE Spec2Model ----------------------------
(***************************************************************************)
(* KASA - Local Alert & Notification System (src/main.py).                 *)
(*                                                                         *)
(* The model covers the USSD handler with its registration wizard, the     *)
(* in-memory user registry, the emergency report store, the bulk CSV       *)
(* import and the location fan-out through the SMS gateway.                *)
(*                                                                         *)
(* Python values are kept as they are in the program: str is a TLA+        *)
(* string (Len, SubSeq and \o act on strings in TLC), a dict with string   *)
(* keys is a function whose DOMAIN is the set of keys present, an          *)
(* insertion-ordered dict of objects is the sequence of its values in      *)
(* insertion order, and Optional[X] is a sequence of at most one X.        *)
(* Non-ASCII glyphs of the program's literals are written as ASCII tags:   *)
(* U+2713 is "[ok]", U+1F4CD is "[pin]", U+1F3E2 is "[bldg]".              *)
(*                                                                         *)
(* Every request handler of the program is a coroutine without a           *)
(* suspension point between its first read and its last write of the       *)
(* shared dicts (the gateway call is a blocking call), so one request is   *)
(* one atomic action.                                                      *)
(***************************************************************************)
EXTENDS Integers, Sequences, FiniteSets, TLC

VARIABLES
    sessions,           \* ussd_session_manager.sessions: sessionId -> dict
    users_db,           \* users_db, in insertion order
    emergency_reports,  \* emergency_reports, in insertion order
    gateway_calls,      \* the sms.send calls made by the last USSD request
    response,           \* the text returned by the last USSD request
    sim,                \* the gateway client (USSDSimulator): session_id, text, active
    served,             \* the number of requests served so far
    inflight,           \* the requests received and not yet answered (SpecConc)
    api                 \* the result of the last request to a users/alerts endpoint

vars == <<sessions, users_db, emergency_reports, gateway_calls, response, sim, served, inflight,
          api>>

---------------------------------------------------------------------------
(* Python str methods *)

\* s.startswith(p)
StartsWith(s, p) == Len(s) >= Len(p) /\ SubSeq(s, 1, Len(p)) = p

\* t in s
Contains(s, t) == \E i \in 1..(Len(s) - Len(t) + 1) : SubSeq(s, i, i + Len(t) - 1) = t

\* s[:n]
Slice(s, n) == SubSeq(s, 1, IF Len(s) < n THEN Len(s) ELSE n)

IsSpace(c) == c \in {" ", "\t", "\n", "\r"}

RECURSIVE LStrip(_)
LStrip(s) == IF s # "" /\ IsSpace(SubSeq(s, 1, 1)) THEN LStrip(SubSeq(s, 2, Len(s))) ELSE s

RECURSIVE RStrip(_)
RStrip(s) ==
    IF s # "" /\ IsSpace(SubSeq(s, Len(s), Len(s))) THEN RStrip(SubSeq(s, 1, Len(s) - 1)) ELSE s

\* s.strip()
\* a strip that takes nothing off
strip_nothing(s) == s

Strip(s) == RStrip(LStrip(s))

UpperChars == "ABCDEFGHIJKLMNOPQRSTUVWXYZ"
LowerChars == "abcdefghijklmnopqrstuvwxyz"

LowerChar(c) ==
    IF \E i \in 1..Len(UpperChars) : SubSeq(UpperChars, i, i) = c
    THEN LET i == CHOOSE j \in 1..Len(UpperChars) : SubSeq(UpperChars, j, j) = c
         IN SubSeq(LowerChars, i, i)
    ELSE c

UpperChar(c) ==
    IF \E i \in 1..Len(LowerChars) : SubSeq(LowerChars, i, i) = c
    THEN LET i == CHOOSE j \in 1..Len(LowerChars) : SubSeq(LowerChars, j, j) = c
         IN SubSeq(UpperChars, i, i)
    ELSE c

RECURSIVE Lower(_)
\* s.lower()
Lower(s) == IF s = "" THEN "" ELSE LowerChar(SubSeq(s, 1, 1)) \o Lower(SubSeq(s, 2, Len(s)))

RECURSIVE Upper(_)
\* s.upper()
Upper(s) == IF s = "" THEN "" ELSE UpperChar(SubSeq(s, 1, 1)) \o Upper(SubSeq(s, 2, Len(s)))

RECURSIVE Split(_, _)
\* s.split(sep) for a one-character sep
Split(s, sep) ==
    IF \E i \in 1..Len(s) : SubSeq(s, i, i) = sep
    THEN LET i == CHOOSE j \in 1..Len(s) :
                      /\ SubSeq(s, j, j) = sep
                      /\ \A k \in 1..(j - 1) : SubSeq(s, k, k) # sep
         IN <<SubSeq(s, 1, i - 1)>> \o Split(SubSeq(s, i + 1, Len(s)), sep)
    ELSE <<s>>

RECURSIVE Join(_, _)
\* sep.join(parts)
Join(parts, sep) ==
    IF parts = <<>> THEN ""
    ELSE IF Len(parts) = 1 THEN parts[1]
    ELSE parts[1] \o sep \o Join(Tail(parts), sep)

---------------------------------------------------------------------------
(* Python dict with string keys *)

EmptyDict == [k \in {} |-> ""]

\* key in d
Has(d, key) == key \in DOMAIN d

\* d[key] = value
DictSet(d, key, value) == [k \in (DOMAIN d) \cup {key} |-> IF k = key THEN value ELSE d[k]]

\* del d[key]
DictDel(d, key) == [k \in (DOMAIN d) \ {key} |-> d[k]]

\* f"{d.get(key)}"
Fmt(d, key) == IF Has(d, key) THEN d[key] ELSE "None"

---------------------------------------------------------------------------
(* class USSDSessionState *)

get_session(store, session_id) ==
    IF Has(store, session_id) THEN store[session_id] ELSE EmptyDict

set_session(store, session_id, data) == DictSet(store, session_id, data)

\* a clear_session that deletes nothing
clear_session_keeping(store, session_id) == store

\* a clear that empties the whole store
clear_session_all(store, session_id) == EmptyDict

clear_session(store, session_id) ==
    IF Has(store, session_id) THEN DictDel(store, session_id) ELSE store

\* an update that writes nothing
update_session_dropping(store, session_id, key, value) == store

\* update_session that keeps nothing of the entry but the key it sets
update_session_replacing(store, session_id, key, value) ==
    DictSet(store, session_id, DictSet(EmptyDict, key, value))

update_session(store, session_id, key, value) ==
    LET s1 == IF ~Has(store, session_id) THEN DictSet(store, session_id, EmptyDict) ELSE store
    IN DictSet(s1, session_id, DictSet(s1[session_id], key, value))

---------------------------------------------------------------------------
(* class USSDSession: the screens *)

get_main_menu ==
    "CON Welcome to KASA - Local Alert System\n"
    \o "1. Send Emergency Alert\n"
    \o "2. Register User\n"
    \o "3. View System Status\n"
    \o "4. Help\n"
    \o "0. Exit"

get_emergency_menu ==
    "CON Select Emergency Type:\n"
    \o "1. Fire Emergency\n"
    \o "2. Medical Emergency\n"
    \o "3. Security Alert\n"
    \o "4. Natural Disaster\n"
    \o "0. Back to Main Menu"

get_confirmation_menu(alert_type) ==
    "CON Confirm sending " \o alert_type \o "?\n1. Yes, Send Alert\n2. No, Cancel\n0. Main Menu"

get_help_menu ==
    "CON KASA Help:\n"
    \o "- Dial this code to send alerts\n"
    \o "- Alerts are sent to registered contacts\n"
    \o "- For emergencies, call 999\n"
    \o "0. Back to Main Menu"

get_registration_name_prompt == "CON Enter your full name:"

get_registration_location_prompt(name) == "CON Hello " \o name \o "!\nEnter your location/area:"

\* the confirmation screen without the continuation prefix
get_registration_confirmation_bare(name, location) ==
    "Confirm registration:\nName: " \o name \o "\nLocation: " \o location
    \o "\n1. Confirm\n2. Cancel\n0. Main Menu"

get_registration_confirmation(name, location) ==
    "CON Confirm registration:\nName: " \o name \o "\nLocation: " \o location
    \o "\n1. Confirm\n2. Cancel\n0. Main Menu"

---------------------------------------------------------------------------
(* Location tracking *)

LocationInfo(latitude, longitude, address, landmark, cell_tower_id, network_provider) ==
    [latitude |-> latitude, longitude |-> longitude, address |-> address,
     landmark |-> landmark, cell_tower_id |-> cell_tower_id,
     network_provider |-> network_provider]

\* location_map, in the order of its items(); an unset Optional field is <<>>
location_map ==
    << [prefix |-> "+254711",
        location |-> LocationInfo(<<"-1.2921">>, <<"36.8219">>,
                                  <<"Nairobi Central Business District">>,
                                  <<"Near Kenyatta Avenue">>, <<"NRB_001">>, <<"Safaricom">>)],
       [prefix |-> "+254712",
        location |-> LocationInfo(<<"-1.3032">>, <<"36.7073">>, <<"Westlands, Nairobi">>,
                                  <<"Near Sarit Centre">>, <<"WLD_002">>, <<"Safaricom">>)],
       [prefix |-> "+254720",
        location |-> LocationInfo(<<"-1.2833">>, <<"36.8167">>, <<"Kilimani, Nairobi">>,
                                  <<"Near Yaya Centre">>, <<"KLM_003">>, <<"Airtel">>)] >>

get_location_from_phone(phone_number) ==
    LET hits == SelectSeq(location_map, LAMBDA e : StartsWith(phone_number, e.prefix))
    IN IF hits # <<>> THEN hits[1].location
       ELSE LocationInfo(<<>>, <<>>,
                         <<"Location being determined via cell tower triangulation">>,
                         <<"Emergency services dispatched">>, <<>>, <<"Detecting...">>)

format_location_for_sms(location) ==
    LET p1 == IF location.address # <<>> /\ location.address[1] # ""
              THEN <<"[pin]" \o location.address[1]>> ELSE <<>>
        p2 == IF location.landmark # <<>> /\ location.landmark[1] # ""
              THEN <<"[bldg]" \o location.landmark[1]>> ELSE <<>>
        p3 == IF location.latitude # <<>> /\ location.longitude # <<>>
              THEN <<"GPS:" \o location.latitude[1] \o "," \o location.longitude[1]>>
              ELSE <<>>
        parts == p1 \o p2 \o p3
    IN IF parts # <<>> THEN Join(parts, " | ") ELSE "Location: Being determined"

---------------------------------------------------------------------------
(* User registry *)

AFRICAS_TALKING_SENDER_ID == "KASA"

User(phone_number, name, location, now) ==
    [phone_number |-> phone_number, name |-> name, location |-> location,
     registration_date |-> now]

\* a lookup that also takes a location containing the queried text
get_users_by_location_partial(db, location) ==
    SelectSeq(db, LAMBDA user : Contains(Lower(user.location), Lower(location)))

get_users_by_location(db, location) ==
    SelectSeq(db, LAMBDA user : Lower(user.location) = Lower(location))

\* an alert that reports the recipients it tried as sent, whatever the gateway did
send_alert_to_location_counting(db, location, message, gw) ==
    LET users_in_location == get_users_by_location(db, location)
        phone_numbers == [i \in 1..Len(users_in_location) |->
                              users_in_location[i].phone_number]
        formatted_message == "[KASA LOCATION ALERT - " \o Upper(location) \o "] " \o message
        call == [message |-> formatted_message, recipients |-> phone_numbers,
                 sender_id |-> AFRICAS_TALKING_SENDER_ID, outcome |-> gw]
    IN IF users_in_location = <<>>
       THEN [status |-> "warning", sent_count |-> 0, calls |-> <<>>]
       ELSE IF gw = "ok"
       THEN [status |-> "success", sent_count |-> Len(phone_numbers), calls |-> <<call>>]
       ELSE [status |-> "error", sent_count |-> Len(phone_numbers), calls |-> <<call>>]

\* the result dict (status, sent_count) and the sms.send calls made; gw is what
\* the gateway does with a call: "ok" returns, "raise" raises
send_alert_to_location(db, location, message, gw) ==
    LET users_in_location == get_users_by_location(db, location)
        phone_numbers == [i \in 1..Len(users_in_location) |->
                              users_in_location[i].phone_number]
        formatted_message == "[KASA LOCATION ALERT - " \o Upper(location) \o "] " \o message
        call == [message |-> formatted_message, recipients |-> phone_numbers,
                 sender_id |-> AFRICAS_TALKING_SENDER_ID, outcome |-> gw]
    IN IF users_in_location = <<>>
       THEN [status |-> "warning", sent_count |-> 0, calls |-> <<>>]
       ELSE IF gw = "ok"
       THEN [status |-> "success", sent_count |-> Len(phone_numbers), calls |-> <<call>>]
       ELSE [status |-> "error", sent_count |-> 0, calls |-> <<call>>]

\* users_db[phone_number] = user: a new key is appended, a present key keeps its place
register_user(db, phone_number, name, location, now) ==
    LET user == User(phone_number, name, location, now)
    IN IF \E i \in 1..Len(db) : db[i].phone_number = phone_number
       THEN LET i == CHOOSE j \in 1..Len(db) : db[j].phone_number = phone_number
            IN [db EXCEPT ![i] = user]
       ELSE Append(db, user)

get_user_by_phone(db, phone_number) ==
    SelectSeq(db, LAMBDA user : user.phone_number = phone_number)

\* phone in users_db
InUsers(db, phone_number) == get_user_by_phone(db, phone_number) # <<>>

---------------------------------------------------------------------------
(* The USSD handler.  S is the shared state a request starts from, a record   *)
(* of sessions, users_db and emergency_reports; the value is the state it     *)
(* leaves, with the gateway calls it made and the response it returns.  now   *)
(* is datetime.now().isoformat() and gw the gateway's behaviour during the    *)
(* request.                                                                   *)

emergency_types ==
    [k \in {"1", "2", "3", "4"} |->
        CASE k = "1" -> "Fire Emergency"
          [] k = "2" -> "Medical Emergency"
          [] k = "3" -> "Security Alert"
          [] k = "4" -> "Natural Disaster"]

\* a handler's outcome that leaves the registry and the reports as they are
Outcome(S, store, text) ==
    [sessions |-> store, users_db |-> S.users_db,
     emergency_reports |-> S.emergency_reports, gateway_calls |-> <<>>,
     response |-> text]

EmergencyReport(session_id, phone_number, emergency_type, timestamp, location, reference_id) ==
    [session_id |-> session_id, phone_number |-> phone_number,
     emergency_type |-> emergency_type, timestamp |-> timestamp,
     location |-> location, reference_id |-> reference_id, status |-> "pending"]

\* emergency_reports[reference_id] = report
store_report(reports, reference_id, report) ==
    IF \E i \in 1..Len(reports) : reports[i].reference_id = reference_id
    THEN LET i == CHOOSE j \in 1..Len(reports) : reports[j].reference_id = reference_id
         IN [reports EXCEPT ![i] = report]
    ELSE Append(reports, report)

\* a reference id that carries the whole session id
reference_id_of_whole(sessionId) == "EMR-" \o sessionId

\* f"EMR-{sessionId[:8]}"
reference_id_of(sessionId) == "EMR-" \o Slice(sessionId, 8)

\* a commit whose User(...) takes a None name or location as the text "None"
registration_commit_unvalidated(S, session_id, phone_number, session_data, now) ==
    LET name == Fmt(session_data, "name")
        location == Fmt(session_data, "location")
    IN [sessions |-> clear_session(S.sessions, session_id),
        users_db |-> register_user(S.users_db, phone_number, name, location, now),
        emergency_reports |-> S.emergency_reports,
        gateway_calls |-> <<>>,
        response |-> "END Registration successful!\nName: " \o name
                     \o "\nLocation: " \o location
                     \o "\nPhone: " \o phone_number
                     \o "\nYou can now receive location alerts!"]

\* the confirmation step with input "1": register_user, clear, success screen;
\* User(...) raises on a None name or location, which the except clause turns
\* into the error screen
registration_commit(S, session_id, phone_number, session_data, now) ==
    IF Has(session_data, "name") /\ Has(session_data, "location")
    THEN LET name == session_data["name"]
             location == session_data["location"]
         IN [sessions |-> clear_session(S.sessions, session_id),
             users_db |-> register_user(S.users_db, phone_number, name, location, now),
             emergency_reports |-> S.emergency_reports,
             gateway_calls |-> <<>>,
             response |-> "END Registration successful!\nName: " \o name
                          \o "\nLocation: " \o location
                          \o "\nPhone: " \o phone_number
                          \o "\nYou can now receive location alerts!"]
    ELSE Outcome(S, clear_session(S.sessions, session_id),
                 "END Registration error. Please try again later.")

\* a confirmation step that ends the wizard on an unknown option
registration_confirmation_strict(S, session_id, phone_number, text, session_data, now) ==
    IF text = "1"
    THEN registration_commit(S, session_id, phone_number, session_data, now)
    ELSE IF text = "2"
    THEN Outcome(S, clear_session(S.sessions, session_id),
                 "END Registration cancelled.")
    ELSE IF text = "0"
    THEN Outcome(S, clear_session(S.sessions, session_id), get_main_menu)
    ELSE Outcome(S, clear_session(S.sessions, session_id),
                 "END Registration error. Please try again.")

\* a confirmation step whose back option leaves the wizard's entry stored
registration_confirmation_back_keeps(S, session_id, phone_number, text, session_data, now) ==
    IF text = "1"
    THEN registration_commit(S, session_id, phone_number, session_data, now)
    ELSE IF text = "2"
    THEN Outcome(S, clear_session(S.sessions, session_id),
                 "END Registration cancelled.")
    ELSE IF text = "0"
    THEN Outcome(S, S.sessions, get_main_menu)
    ELSE Outcome(S, S.sessions,
                 get_registration_confirmation(Fmt(session_data, "name"),
                                               Fmt(session_data, "location")))

\* the wizard's confirmation step
registration_confirmation(S, session_id, phone_number, text, session_data, now) ==
    IF text = "1"
    THEN registration_commit(S, session_id, phone_number, session_data, now)
    ELSE IF text = "2"
    THEN Outcome(S, clear_session(S.sessions, session_id),
                 "END Registration cancelled.")
    ELSE IF text = "0"
    THEN Outcome(S, clear_session(S.sessions, session_id), get_main_menu)
    ELSE Outcome(S, S.sessions,
                 get_registration_confirmation(Fmt(session_data, "name"),
                                               Fmt(session_data, "location")))

handle_registration_flow(S, session_id, phone_number, text, text_array, session_data, now) ==
    LET step == Fmt(session_data, "step")
    IN IF Has(session_data, "step") /\ step = "name"
       THEN IF text # "" /\ Strip(text) # ""
            THEN LET name == Strip(text)
                 IN Outcome(S,
                        update_session(update_session(S.sessions, session_id, "name", name),
                                       session_id, "step", "location"),
                        get_registration_location_prompt(name))
            ELSE Outcome(S, S.sessions, "CON Please enter your full name:")
       ELSE IF Has(session_data, "step") /\ step = "location"
       THEN IF text # "" /\ Strip(text) # ""
            THEN LET location == Strip(text)
                     name == Fmt(session_data, "name")
                 IN Outcome(S,
                        update_session(
                            update_session(S.sessions, session_id, "location", location),
                            session_id, "step", "confirmation"),
                        get_registration_confirmation(name, location))
            ELSE Outcome(S, S.sessions, "CON Please enter your location/area:")
       ELSE IF Has(session_data, "step") /\ step = "confirmation"
       THEN registration_confirmation(S, session_id, phone_number, text, session_data, now)
       ELSE Outcome(S, clear_session(S.sessions, session_id),
                    "END Registration error. Please try again.")

\* a register branch that opens the wizard's session before it looks the
\* caller up
register_entry_session_first(S, sessionId, phoneNumber) ==
    LET existing_user == get_user_by_phone(S.users_db, phoneNumber)
        store == set_session(S.sessions, sessionId,
                             [flow |-> "registration", step |-> "name",
                              phone |-> phoneNumber])
    IN IF existing_user # <<>>
       THEN Outcome(S, store,
                    "END You are already registered!\nName: " \o existing_user[1].name
                    \o "\nLocation: " \o existing_user[1].location
                    \o "\nRegistered: " \o Slice(existing_user[1].registration_date, 10))
       ELSE Outcome(S, store, get_registration_name_prompt)

\* a register branch whose entry does not keep the caller's phone
register_entry_without_phone(S, sessionId, phoneNumber) ==
    LET existing_user == get_user_by_phone(S.users_db, phoneNumber)
    IN IF existing_user # <<>>
       THEN Outcome(S, S.sessions,
                    "END You are already registered!\nName: " \o existing_user[1].name
                    \o "\nLocation: " \o existing_user[1].location
                    \o "\nRegistered: " \o Slice(existing_user[1].registration_date, 10))
       ELSE Outcome(S, set_session(S.sessions, sessionId,
                                   [flow |-> "registration", step |-> "name"]),
                    get_registration_name_prompt)

\* a register branch that opens the wizard at its second step
register_entry_at_location(S, sessionId, phoneNumber) ==
    LET existing_user == get_user_by_phone(S.users_db, phoneNumber)
    IN IF existing_user # <<>>
       THEN Outcome(S, S.sessions,
                    "END You are already registered!\nName: " \o existing_user[1].name
                    \o "\nLocation: " \o existing_user[1].location
                    \o "\nRegistered: " \o Slice(existing_user[1].registration_date, 10))
       ELSE Outcome(S, set_session(S.sessions, sessionId,
                                   [flow |-> "registration", step |-> "location",
                                    phone |-> phoneNumber]),
                    get_registration_name_prompt)

\* depth 1, text "2": the already-registered screen or the wizard's entry
register_entry(S, sessionId, phoneNumber) ==
    LET existing_user == get_user_by_phone(S.users_db, phoneNumber)
    IN IF existing_user # <<>>
       THEN Outcome(S, S.sessions,
                    "END You are already registered!\nName: " \o existing_user[1].name
                    \o "\nLocation: " \o existing_user[1].location
                    \o "\nRegistered: " \o Slice(existing_user[1].registration_date, 10))
       ELSE Outcome(S,
                    set_session(S.sessions, sessionId,
                                [flow |-> "registration", step |-> "name",
                                 phone |-> phoneNumber]),
                    get_registration_name_prompt)

\* a confirmation whose fan-out lets the gateway's exception through to the
\* handler's except clause
emergency_confirm_send_uncaught(S, sessionId, phoneNumber, alert_type, now, gw) ==
    LET user == get_user_by_phone(S.users_db, phoneNumber)
        location == get_location_from_phone(phoneNumber)
        location_info == format_location_for_sms(location)
        reference_id == reference_id_of(sessionId)
        report == EmergencyReport(sessionId, phoneNumber, alert_type, now, location,
                                  reference_id)
        alert_message == "EMERGENCY ALERT: " \o alert_type \o " reported in "
                         \o user[1].location \o ". From: " \o user[1].name
                         \o " (" \o phoneNumber \o "). Stay alert and safe!"
        location_alert_result ==
            IF user # <<>>
            THEN <<send_alert_to_location(S.users_db, user[1].location, alert_message, gw)>>
            ELSE <<>>
        raised == location_alert_result # <<>> /\ location_alert_result[1].status = "error"
        notified ==
            IF location_alert_result # <<>> /\ location_alert_result[1].status = "success"
            THEN "\n[ok] " \o ToString(location_alert_result[1].sent_count)
                 \o " local users notified"
            ELSE ""
    IN [sessions |-> clear_session(S.sessions, sessionId),
        users_db |-> S.users_db,
        emergency_reports |-> store_report(S.emergency_reports, reference_id, report),
        gateway_calls |-> IF location_alert_result # <<>>
                          THEN location_alert_result[1].calls ELSE <<>>,
        response |-> IF raised THEN "END System error. Please try again later."
                     ELSE "END " \o alert_type \o " alert sent!\nReference: "
                          \o reference_id \o "\nLocation: " \o location_info
                          \o notified \o "\nStay safe!"]

\* depth 3, "1*k*1" with a valid k: the report, the fan-out, the acknowledgement
\* a confirm that notifies the first registered user's area when the caller
\* is not registered
emergency_confirm_notify_unknown(S, sessionId, phoneNumber, alert_type, now, gw) ==
    LET user == get_user_by_phone(S.users_db, phoneNumber)
        location == get_location_from_phone(phoneNumber)
        location_info == format_location_for_sms(location)
        reference_id == reference_id_of(sessionId)
        report == EmergencyReport(sessionId, phoneNumber, alert_type, now, location,
                                  reference_id)
        alert_message == "EMERGENCY ALERT: " \o alert_type \o " reported in "
                         \o user[1].location \o ". From: " \o user[1].name
                         \o " (" \o phoneNumber \o "). Stay alert and safe!"
        location_alert_result ==
            IF user # <<>>
            THEN <<send_alert_to_location(S.users_db, user[1].location, alert_message, gw)>>
            ELSE IF S.users_db # <<>>
            THEN <<send_alert_to_location(S.users_db, S.users_db[1].location,
                                          "EMERGENCY ALERT: " \o alert_type, gw)>>
            ELSE <<>>
        notified ==
            IF location_alert_result # <<>> /\ location_alert_result[1].status = "success"
            THEN "\n[ok] " \o ToString(location_alert_result[1].sent_count)
                 \o " local users notified"
            ELSE ""
    IN [sessions |-> clear_session(S.sessions, sessionId),
        users_db |-> S.users_db,
        emergency_reports |-> store_report(S.emergency_reports, reference_id, report),
        gateway_calls |-> IF location_alert_result # <<>>
                          THEN location_alert_result[1].calls ELSE <<>>,
        response |-> "END " \o alert_type \o " alert sent!\nReference: " \o reference_id
                     \o "\nLocation: " \o location_info \o notified \o "\nStay safe!"]

emergency_confirm(S, sessionId, phoneNumber, alert_type, now, gw) ==
    LET user == get_user_by_phone(S.users_db, phoneNumber)
        location == get_location_from_phone(phoneNumber)
        location_info == format_location_for_sms(location)
        reference_id == reference_id_of(sessionId)
        report == EmergencyReport(sessionId, phoneNumber, alert_type, now, location,
                                  reference_id)
        alert_message == "EMERGENCY ALERT: " \o alert_type \o " reported in "
                         \o user[1].location \o ". From: " \o user[1].name
                         \o " (" \o phoneNumber \o "). Stay alert and safe!"
        location_alert_result ==
            IF user # <<>>
            THEN <<send_alert_to_location(S.users_db, user[1].location, alert_message, gw)>>
            ELSE <<>>
        notified ==
            IF location_alert_result # <<>> /\ location_alert_result[1].status = "success"
            THEN "\n[ok] " \o ToString(location_alert_result[1].sent_count)
                 \o " local users notified"
            ELSE ""
    IN [sessions |-> clear_session(S.sessions, sessionId),
        users_db |-> S.users_db,
        emergency_reports |-> store_report(S.emergency_reports, reference_id, report),
        gateway_calls |-> IF location_alert_result # <<>>
                          THEN location_alert_result[1].calls ELSE <<>>,
        response |-> "END " \o alert_type \o " alert sent!\nReference: " \o reference_id
                     \o "\nLocation: " \o location_info \o notified \o "\nStay safe!"]

\* the generic answer to a path that matches no route
fallback(S, sessionId) ==
    Outcome(S, clear_session(S.sessions, sessionId),
            "END Session ended. Dial again to restart.")

\* first level navigation
\* a first level that stores where in the menu the session is
first_level_tracking(S, sessionId, phoneNumber, text) ==
    IF text = "1"
    THEN Outcome(S, update_session(S.sessions, sessionId, "menu", "emergency"),
                 get_emergency_menu)
    ELSE IF text = "2" THEN register_entry(S, sessionId, phoneNumber)
    ELSE IF text = "3"
    THEN Outcome(S, S.sessions,
                 "END KASA System Status:\n[ok] SMS Service: Online\n"
                 \o "[ok] Alert System: Active\n[ok] Registered Users: "
                 \o ToString(Len(S.users_db))
                 \o "\n[ok] Last Updated: Now\nSystem is operational.")
    ELSE IF text = "4" THEN Outcome(S, S.sessions, get_help_menu)
    ELSE Outcome(S, S.sessions, "END Invalid option. Please try again.")

first_level(S, sessionId, phoneNumber, text) ==
    IF text = "1" THEN Outcome(S, S.sessions, get_emergency_menu)
    ELSE IF text = "2" THEN register_entry(S, sessionId, phoneNumber)
    ELSE IF text = "3"
    THEN Outcome(S, S.sessions,
                 "END KASA System Status:\n[ok] SMS Service: Online\n"
                 \o "[ok] Alert System: Active\n[ok] Registered Users: "
                 \o ToString(Len(S.users_db))
                 \o "\n[ok] Last Updated: Now\nSystem is operational.")
    ELSE IF text = "4" THEN Outcome(S, S.sessions, get_help_menu)
    ELSE Outcome(S, S.sessions, "END Invalid option. Please try again.")

\* a second level that reads the emergency type whatever the first segment is
second_level_any_branch(S, sessionId, text_array) ==
    IF text_array[2] \in DOMAIN emergency_types
    THEN Outcome(S, S.sessions, get_confirmation_menu(emergency_types[text_array[2]]))
    ELSE IF text_array[1] = "1" /\ text_array[2] = "0"
    THEN Outcome(S, S.sessions, get_main_menu)
    ELSE IF text_array[1] = "1" THEN Outcome(S, S.sessions, "END Invalid emergency type.")
    ELSE IF text_array[1] = "4" /\ text_array[2] = "0"
    THEN Outcome(S, S.sessions, get_main_menu)
    ELSE fallback(S, sessionId)

\* a second level without the way back from help
second_level_no_help_back(S, sessionId, text_array) ==
    IF text_array[1] = "1"
    THEN IF text_array[2] \in DOMAIN emergency_types
         THEN Outcome(S, S.sessions,
                      get_confirmation_menu(emergency_types[text_array[2]]))
         ELSE IF text_array[2] = "0" THEN Outcome(S, S.sessions, get_main_menu)
         ELSE Outcome(S, S.sessions, "END Invalid emergency type.")
    ELSE fallback(S, sessionId)

\* second level navigation: the emergency type, or back from help
second_level(S, sessionId, text_array) ==
    IF text_array[1] = "1"
    THEN IF text_array[2] \in DOMAIN emergency_types
         THEN Outcome(S, S.sessions,
                      get_confirmation_menu(emergency_types[text_array[2]]))
         ELSE IF text_array[2] = "0" THEN Outcome(S, S.sessions, get_main_menu)
         ELSE Outcome(S, S.sessions, "END Invalid emergency type.")
    ELSE IF text_array[1] = "4" /\ text_array[2] = "0"
    THEN Outcome(S, S.sessions, get_main_menu)
    ELSE fallback(S, sessionId)

\* a third level with the digits of confirm and cancel exchanged
third_level_swapped(S, sessionId, phoneNumber, text_array, now, gw) ==
    IF text_array[1] = "1" /\ text_array[3] = "2"
    THEN IF text_array[2] \in DOMAIN emergency_types
         THEN emergency_confirm(S, sessionId, phoneNumber,
                                emergency_types[text_array[2]], now, gw)
         ELSE fallback(S, sessionId)
    ELSE IF text_array[1] = "1" /\ text_array[3] = "1"
    THEN Outcome(S, clear_session(S.sessions, sessionId),
                 "END Alert cancelled. Stay safe!")
    ELSE IF text_array[1] = "1" /\ text_array[3] = "0"
    THEN Outcome(S, S.sessions, get_main_menu)
    ELSE fallback(S, sessionId)

\* a third level without a way back to the main menu
third_level_no_back(S, sessionId, phoneNumber, text_array, now, gw) ==
    IF text_array[1] = "1" /\ text_array[3] = "1"
    THEN IF text_array[2] \in DOMAIN emergency_types
         THEN emergency_confirm(S, sessionId, phoneNumber,
                                emergency_types[text_array[2]], now, gw)
         ELSE fallback(S, sessionId)
    ELSE IF text_array[1] = "1" /\ text_array[3] = "2"
    THEN Outcome(S, clear_session(S.sessions, sessionId),
                 "END Alert cancelled. Stay safe!")
    ELSE fallback(S, sessionId)

\* a third level that confirms whatever the second segment is
third_level_unvalidated(S, sessionId, phoneNumber, text_array, now, gw) ==
    IF text_array[1] = "1" /\ text_array[3] = "1"
    THEN emergency_confirm(S, sessionId, phoneNumber,
                           IF text_array[2] \in DOMAIN emergency_types
                           THEN emergency_types[text_array[2]] ELSE "Emergency",
                           now, gw)
    ELSE IF text_array[1] = "1" /\ text_array[3] = "2"
    THEN Outcome(S, clear_session(S.sessions, sessionId),
                 "END Alert cancelled. Stay safe!")
    ELSE IF text_array[1] = "1" /\ text_array[3] = "0"
    THEN Outcome(S, S.sessions, get_main_menu)
    ELSE fallback(S, sessionId)

\* third level navigation: the confirmation of the alert
third_level(S, sessionId, phoneNumber, text_array, now, gw) ==
    IF text_array[1] = "1" /\ text_array[3] = "1"
    THEN IF text_array[2] \in DOMAIN emergency_types
         THEN emergency_confirm(S, sessionId, phoneNumber,
                                emergency_types[text_array[2]], now, gw)
         ELSE fallback(S, sessionId)
    ELSE IF text_array[1] = "1" /\ text_array[3] = "2"
    THEN Outcome(S, clear_session(S.sessions, sessionId),
                 "END Alert cancelled. Stay safe!")
    ELSE IF text_array[1] = "1" /\ text_array[3] = "0"
    THEN Outcome(S, S.sessions, get_main_menu)
    ELSE fallback(S, sessionId)

\* a menu whose root is the empty text only
menu_dispatch_empty_root(S, sessionId, phoneNumber, text, text_array, now, gw) ==
    IF text = ""
    THEN Outcome(S, clear_session(S.sessions, sessionId), get_main_menu)
    ELSE IF Len(text_array) = 1 THEN first_level(S, sessionId, phoneNumber, text)
    ELSE IF Len(text_array) = 2 THEN second_level(S, sessionId, text_array)
    ELSE IF Len(text_array) = 3
    THEN third_level(S, sessionId, phoneNumber, text_array, now, gw)
    ELSE fallback(S, sessionId)

\* the menu: the root sentinel, then the routing by depth, then the fallback
menu_dispatch(S, sessionId, phoneNumber, text, text_array, now, gw) ==
    IF text = "" \/ text = "0"
    THEN Outcome(S, clear_session(S.sessions, sessionId), get_main_menu)
    ELSE IF Len(text_array) = 1 THEN first_level(S, sessionId, phoneNumber, text)
    ELSE IF Len(text_array) = 2 THEN second_level(S, sessionId, text_array)
    ELSE IF Len(text_array) = 3
    THEN third_level(S, sessionId, phoneNumber, text_array, now, gw)
    ELSE fallback(S, sessionId)

\* session_data.get('flow') == 'registration'
in_registration_flow(session_data) ==
    Has(session_data, "flow") /\ session_data["flow"] = "registration"

\* a handler that applies the root sentinel before the flow check
ussd_handler_root_first(S, sessionId, phoneNumber, text, now, gw) ==
    LET session_data == get_session(S.sessions, sessionId)
        text_array == IF text # "" THEN Split(text, "*") ELSE <<"">>
    IN IF text = "" \/ text = "0"
       THEN Outcome(S, clear_session(S.sessions, sessionId), get_main_menu)
       ELSE IF in_registration_flow(session_data)
       THEN handle_registration_flow(S, sessionId, phoneNumber, text, text_array,
                                     session_data, now)
       ELSE menu_dispatch(S, sessionId, phoneNumber, text, text_array, now, gw)

ussd_handler(S, sessionId, phoneNumber, text, now, gw) ==
    LET session_data == get_session(S.sessions, sessionId)
        text_array == IF text # "" THEN Split(text, "*") ELSE <<"">>
    IN IF in_registration_flow(session_data)
       THEN handle_registration_flow(S, sessionId, phoneNumber, text, text_array,
                                     session_data, now)
       ELSE menu_dispatch(S, sessionId, phoneNumber, text, text_array, now, gw)

\* the places a request can raise at: before the handler has written anything,
\* or after its writes to the registry and the report log
RaisePoints == {"entry", "after_write"}

\* except branches that return the error screen and leave the session alone
ussd_handler_raising_keeps_session(S, sessionId, phoneNumber, text, now, gw, at) ==
    LET session_data == get_session(S.sessions, sessionId)
        done == ussd_handler(S, sessionId, phoneNumber, text, now, gw)
        kept == IF at = "after_write" THEN done ELSE Outcome(S, S.sessions, "")
    IN [sessions |-> kept.sessions,
        users_db |-> kept.users_db,
        emergency_reports |-> kept.emergency_reports,
        gateway_calls |-> kept.gateway_calls,
        response |-> IF in_registration_flow(session_data)
                     THEN "END Registration error. Please try again later."
                     ELSE "END System error. Please try again later."]

\* a request during which a statement raises: what was written before the
\* raise stays, and the except clause that catches it (handle_registration_flow's
\* in an active flow, ussd_handler's otherwise) clears the session and returns
\* its error screen
ussd_handler_raising(S, sessionId, phoneNumber, text, now, gw, at) ==
    LET session_data == get_session(S.sessions, sessionId)
        done == ussd_handler(S, sessionId, phoneNumber, text, now, gw)
        kept == IF at = "after_write" THEN done ELSE Outcome(S, S.sessions, "")
    IN [sessions |-> clear_session(kept.sessions, sessionId),
        users_db |-> kept.users_db,
        emergency_reports |-> kept.emergency_reports,
        gateway_calls |-> kept.gateway_calls,
        response |-> IF in_registration_flow(session_data)
                     THEN "END Registration error. Please try again later."
                     ELSE "END System error. Please try again later."]

---------------------------------------------------------------------------
(* Bulk import.  A file is the sequence of its data rows, each a record of   *)
(* the name, phone and location columns; a file that is rejected before     *)
(* its rows are read (wrong extension, wrong headers) changes nothing.       *)

RECURSIVE upload_users_csv(_, _, _)
upload_users_csv(db, rows, now) ==
    IF rows = <<>> THEN db
    ELSE LET row == Head(rows)
             name == Strip(row.name)
             phone == Strip(row.phone)
             location == Strip(row.location)
             db1 == IF name = "" \/ phone = "" \/ location = "" THEN db
                    ELSE IF ~StartsWith(phone, "+") THEN db
                    ELSE IF InUsers(db, phone) THEN db
                    ELSE register_user(db, phone, name, location, now)
         IN upload_users_csv(db1, Tail(rows), now)

---------------------------------------------------------------------------
(* The environment.  A dial is a session id with the phone that dialled it  *)
(* (the gateway gives every dial its own session id); two of the dials are  *)
(* the same phone, and their ids share their first eight characters, as the *)
(* ids of src/docs_testing_examples.py do.                                  *)

Dials ==
    { [sessionId |-> "docs_test_001", phoneNumber |-> "+254712345678"],
      [sessionId |-> "docs_test_002", phoneNumber |-> "+254712345678"] }

Texts == {"0", "1", "2", "1*1*1", "Alice", "Nairobi"}

\* the callers and the texts the properties try as the next request from every
\* reachable state: more than the runs send
AllSessionIds == {"docs_test_001", "docs_test_002", "test_session_12345"}

AllPhones == {"+254712345678", "+254711123456", "+254766123456"}

AllTexts ==
    {"", "0", "1", "2", "3", "4", "9", " ", "1*1", "1*4", "1*9", "1*0", "4*0", "2*1",
     "1*1*1", "1*4*1", "1*1*2", "1*1*0", "1*9*1", "3*0*1", "1*1*1*1",
     "Alice", " Alice ", "Nairobi", "2*Alice"}

Clock == {"2025-06-27T10:15:00"}

GatewayBehaviours == {"ok", "raise"}

UsersCsv ==
    << [name |-> "Grace", phone |-> "+254711123456", location |-> "Westlands"],
       [name |-> " Peter ", phone |-> "+254712345678", location |-> "westlands"],
       [name |-> "Mary", phone |-> "+254720555666", location |-> "Kilimani"],
       [name |-> "John", phone |-> "0712345678", location |-> "Westlands"],
       [name |-> "", phone |-> "+254766123456", location |-> "Parklands"] >>

CsvFiles == { UsersCsv, SubSeq(UsersCsv, 1, 1) }

\* the longest run of requests explored
\* no users/alerts endpoint called yet
NoResult == [endpoint |-> "", location |-> "", status |-> "", sent_count |-> 0,
             users |-> <<>>, calls |-> <<>>]

MaxRequests == 5

\* the shared state a request starts from
Shared == [sessions |-> sessions, users_db |-> users_db,
           emergency_reports |-> emergency_reports]

Init ==
    /\ sessions = EmptyDict
    /\ users_db = <<>>
    /\ emergency_reports = <<>>
    /\ gateway_calls = <<>>
    /\ response = ""
    /\ sim = [session_id |-> "", phone_number |-> "", text |-> "", pc |-> "off"]
    /\ served = 0
    /\ inflight = [active |-> <<>>, raced |-> FALSE]
    /\ api = NoResult

\* one POST /ussd request served: the handler's outcome becomes the state
Serve(sessionId, phoneNumber, text, now, gw) ==
    LET out == ussd_handler(Shared, sessionId, phoneNumber, text, now, gw)
    IN /\ served < MaxRequests
       /\ served' = served + 1
       /\ sessions' = out.sessions
       /\ users_db' = out.users_db
       /\ emergency_reports' = out.emergency_reports
       /\ gateway_calls' = out.gateway_calls
       /\ response' = out.response

\* POST /ussd
Ussd(sessionId, phoneNumber, text, now, gw) ==
    /\ Serve(sessionId, phoneNumber, text, now, gw)
    /\ UNCHANGED <<sim, inflight, api>>

\* POST /upload-users
UploadUsersCsv(rows, now) ==
    /\ served < MaxRequests
    /\ served' = served + 1
    /\ users_db' = upload_users_csv(users_db, rows, now)
    /\ UNCHANGED <<sessions, emergency_reports, gateway_calls, response, sim, inflight, api>>

Next ==
    \/ \E dial \in Dials, text \in Texts, now \in Clock, gw \in GatewayBehaviours :
           Ussd(dial.sessionId, dial.phoneNumber, text, now, gw)
    \/ \E rows \in CsvFiles, now \in Clock : UploadUsersCsv(rows, now)

Spec == Init /\ [][Next]_vars

---------------------------------------------------------------------------
(* The gateway client of src/enhanced_ussd_simulator.py: it sends the whole *)
(* accumulated path with every request, as the gateway protocol has it.     *)
(* sim.pc is the position in USSDSimulator.run: "off" before run, "send"    *)
(* at send_ussd_request, "input" at the prompt for the next choice, "ended" *)
(* after a response that ended the session.                                 *)

SimSessionIds == {"ATUid_sim_0a1b2c3d", "ATUid_sim_9f8e7d6c"}

SimInputs == {"0", "1", "2", "4", "Alice", "Nairobi"}

\* the longest path the simulated user types
MaxSimInputs == 4

\* USSDSimulator.__init__, get_phone_number and the start of run
SimDial(session_id, phone_number) ==
    /\ sim.pc = "off"
    /\ StartsWith(phone_number, "+") /\ Len(phone_number) >= 10
    /\ sim' = [session_id |-> session_id, phone_number |-> phone_number,
               text |-> "", pc |-> "send"]
    /\ UNCHANGED <<sessions, users_db, emergency_reports, gateway_calls, response, served,
                   inflight, api>>

\* format_response: whether the session continues
format_response(response_text) ==
    IF StartsWith(response_text, "CON ") THEN TRUE
    ELSE IF StartsWith(response_text, "END ") THEN FALSE
    ELSE TRUE

\* send_ussd_request(text) and format_response
SimSend(now, gw) ==
    /\ sim.pc = "send"
    /\ Serve(sim.session_id, sim.phone_number, sim.text, now, gw)
    /\ sim' = [sim EXCEPT !.pc = IF format_response(response') THEN "input" ELSE "ended"]
    /\ UNCHANGED <<inflight, api>>

\* the user's choice is appended to the path
SimInput(user_input) ==
    /\ sim.pc = "input"
    /\ sim.text # "" => Len(Split(sim.text, "*")) < MaxSimInputs
    /\ sim' = [sim EXCEPT !.text = IF sim.text = "" THEN user_input
                                   ELSE sim.text \o "*" \o user_input,
                          !.pc = "send"]
    /\ UNCHANGED <<sessions, users_db, emergency_reports, gateway_calls, response, served,
                   inflight, api>>

\* "Start a new session? y": a new session id, an empty path
SimRestart(session_id) ==
    /\ sim.pc = "ended"
    /\ session_id # sim.session_id
    /\ sim' = [sim EXCEPT !.session_id = session_id, !.text = "", !.pc = "send"]
    /\ UNCHANGED <<sessions, users_db, emergency_reports, gateway_calls, response, served,
                   inflight, api>>

NextSim ==
    \/ \E session_id \in SimSessionIds, phone_number \in AllPhones :
           SimDial(session_id, phone_number)
    \/ \E now \in Clock, gw \in GatewayBehaviours : SimSend(now, gw)
    \/ \E user_input \in SimInputs : SimInput(Strip(user_input))
    \/ \E session_id \in SimSessionIds : SimRestart(session_id)

SpecSim == Init /\ [][NextSim]_vars

---------------------------------------------------------------------------
(* The menu navigation of src/test_ussd_comprehensive.py: one session, the  *)
(* whole accumulated path in every text, wrong paths among the right ones.  *)

\* USSDTester's session
TesterDials == { [sessionId |-> "test_session_12345", phoneNumber |-> "+254712345678"] }

MenuTexts ==
    {"", "0", "1", "2", "3", "4", "9", "1*1", "1*9", "4*0", "2*1",
     "1*1*1", "1*1*2", "3*0*1", "1*9*0", "1*9*1", "1*1*1*1"}

NextMenu ==
    \/ \E dial \in TesterDials, text \in MenuTexts, now \in Clock,
          gw \in GatewayBehaviours :
           Ussd(dial.sessionId, dial.phoneNumber, text, now, gw)
    \/ \E now \in Clock : UploadUsersCsv(UsersCsv, now)

SpecMenu == Init /\ [][NextMenu]_vars

---------------------------------------------------------------------------
(* Requests during which a statement raises.                                *)

\* POST /ussd, with an exception raised at the point `at`
UssdRaises(sessionId, phoneNumber, text, now, gw, at) ==
    LET out == ussd_handler_raising(Shared, sessionId, phoneNumber, text, now, gw, at)
    IN /\ served < MaxRequests
       /\ served' = served + 1
       /\ sessions' = out.sessions
       /\ users_db' = out.users_db
       /\ emergency_reports' = out.emergency_reports
       /\ gateway_calls' = out.gateway_calls
       /\ response' = out.response
       /\ UNCHANGED <<sim, inflight, api>>

NextFaults ==
    \/ \E dial \in TesterDials, text \in Texts, now \in Clock, gw \in GatewayBehaviours :
           Ussd(dial.sessionId, dial.phoneNumber, text, now, gw)
    \/ \E dial \in TesterDials, text \in Texts, now \in Clock, gw \in GatewayBehaviours,
          at \in RaisePoints :
           UssdRaises(dial.sessionId, dial.phoneNumber, text, now, gw, at)

SpecFaults == Init /\ [][NextFaults]_vars

---------------------------------------------------------------------------
(* The handler one session-store operation at a time.  Requests are         *)
(* received while others are not answered yet; the event loop runs one      *)
(* coroutine until its next suspension point and only then another.         *)

ConcTexts == {"1", "2", "Alice"}

\* the requests received and not yet answered at one time
MaxInFlight == 2

StoreOp(op, key, value) == [op |-> op, key |-> key, value |-> value]

\* the writes of a request in program order, as the branch taken on the
\* session read at the start and on the text makes them
store_ops(S, session_data, sessionId, phoneNumber, text) ==
    LET text_array == IF text # "" THEN Split(text, "*") ELSE <<"">>
        step == Fmt(session_data, "step")
        clear == <<StoreOp("clear", "", "")>>
    IN IF in_registration_flow(session_data)
       THEN IF Has(session_data, "step") /\ step = "name"
            THEN IF text # "" /\ Strip(text) # ""
                 THEN <<StoreOp("update", "name", Strip(text)),
                        StoreOp("update", "step", "location")>>
                 ELSE <<>>
            ELSE IF Has(session_data, "step") /\ step = "location"
            THEN IF text # "" /\ Strip(text) # ""
                 THEN <<StoreOp("update", "location", Strip(text)),
                        StoreOp("update", "step", "confirmation")>>
                 ELSE <<>>
            ELSE IF Has(session_data, "step") /\ step = "confirmation"
            THEN IF text = "1" THEN <<StoreOp("register", "", "")>> \o clear
                 ELSE IF text \in {"2", "0"} THEN clear
                 ELSE <<>>
            ELSE clear
       ELSE IF text = "" \/ text = "0" THEN clear
       ELSE IF Len(text_array) = 1
       THEN IF text = "2" /\ ~InUsers(S.users_db, phoneNumber)
            THEN <<StoreOp("set", "", "")>>
            ELSE <<>>
       ELSE IF Len(text_array) = 2
       THEN IF text_array[1] = "1" \/ (text_array[1] = "4" /\ text_array[2] = "0")
            THEN <<>>
            ELSE clear
       ELSE IF Len(text_array) = 3
       THEN IF text_array[1] = "1" /\ text_array[3] = "1"
            THEN IF text_array[2] \in DOMAIN emergency_types
                 THEN <<StoreOp("report", "", emergency_types[text_array[2]])>> \o clear
                 ELSE clear
            ELSE IF text_array[1] = "1" /\ text_array[3] = "2" THEN clear
            ELSE IF text_array[1] = "1" /\ text_array[3] = "0" THEN <<>>
            ELSE clear
       ELSE clear

\* whether the coroutine of a request that has started can be suspended
\* before its next write: ussd_handler and handle_registration_flow await
\* nothing between the read of the session and the return
may_yield_anywhere(request) == TRUE

may_yield(request) == FALSE

\* the event loop can run request i: no other coroutine is in the middle of
\* its handler
CanRun(i) ==
    \A j \in 1..Len(inflight.active) :
        (j # i /\ inflight.active[j].pc = "running") => may_yield(inflight.active[j])

\* a request is received
Arrive(sessionId, phoneNumber, text, now, gw) ==
    /\ served < MaxRequests
    /\ Len(inflight.active) < MaxInFlight
    /\ served' = served + 1
    /\ inflight' = [inflight EXCEPT !.active = Append(@,
                       [sessionId |-> sessionId, phoneNumber |-> phoneNumber,
                        text |-> text, now |-> now, gw |-> gw, pc |-> "pending",
                        session_data |-> EmptyDict, todo |-> <<>>, resp |-> "",
                        calls |-> <<>>, raced |-> FALSE])]
    /\ UNCHANGED <<sessions, users_db, emergency_reports, gateway_calls, response, sim, api>>

\* session_data = get_session(sessionId), and the branch
Begin(i) ==
    LET request == inflight.active[i]
        session_data == get_session(sessions, request.sessionId)
    IN /\ request.pc = "pending"
       /\ CanRun(i)
       /\ inflight' = [inflight EXCEPT !.active[i] =
              [request EXCEPT
                 !.pc = "running",
                 !.session_data = session_data,
                 !.todo = store_ops(Shared, session_data, request.sessionId,
                                    request.phoneNumber, request.text),
                 !.resp = ussd_handler(Shared, request.sessionId, request.phoneNumber,
                                       request.text, request.now, request.gw).response,
                 !.raced = Len(inflight.active) > 1]]
       /\ UNCHANGED <<sessions, users_db, emergency_reports, gateway_calls, response, sim,
                      served, api>>

\* the next write of a request that has started
Step(i) ==
    LET request == inflight.active[i]
        w == Head(request.todo)
        alert == emergency_confirm(Shared, request.sessionId, request.phoneNumber,
                                   w.value, request.now, request.gw)
    IN /\ request.pc = "running"
       /\ request.todo # <<>>
       /\ CanRun(i)
       /\ sessions' =
            IF w.op = "update"
            THEN update_session(sessions, request.sessionId, w.key, w.value)
            ELSE IF w.op = "set"
            THEN set_session(sessions, request.sessionId,
                             [flow |-> "registration", step |-> "name",
                              phone |-> request.phoneNumber])
            ELSE IF w.op = "clear" THEN clear_session(sessions, request.sessionId)
            ELSE sessions
       /\ users_db' =
            IF w.op = "register"
            THEN registration_commit(Shared, request.sessionId, request.phoneNumber,
                                     request.session_data, request.now).users_db
            ELSE users_db
       /\ emergency_reports' =
            IF w.op = "report" THEN alert.emergency_reports ELSE emergency_reports
       /\ inflight' = [inflight EXCEPT !.active[i] =
              [request EXCEPT !.todo = Tail(@),
                              !.calls = IF w.op = "report" THEN alert.gateway_calls
                                        ELSE @]]
       /\ UNCHANGED <<gateway_calls, response, sim, served, api>>

\* the response is returned
Finish(i) ==
    LET request == inflight.active[i]
    IN /\ request.pc = "running"
       /\ request.todo = <<>>
       /\ CanRun(i)
       /\ response' = request.resp
       /\ gateway_calls' = request.calls
       /\ inflight' =
            [active |-> SubSeq(inflight.active, 1, i - 1)
                        \o SubSeq(inflight.active, i + 1, Len(inflight.active)),
             raced |-> inflight.raced \/ request.raced]
       /\ UNCHANGED <<sessions, users_db, emergency_reports, sim, served, api>>

NextConc ==
    \/ \E dial \in TesterDials, text \in ConcTexts, now \in Clock :
           Arrive(dial.sessionId, dial.phoneNumber, text, now, "ok")
    \/ \E i \in 1..Len(inflight.active) : Begin(i)
    \/ \E i \in 1..Len(inflight.active) : Step(i)
    \/ \E i \in 1..Len(inflight.active) : Finish(i)

SpecConc == Init /\ [][NextConc]_vars

---------------------------------------------------------------------------
(* Helpers of the properties                                                *)

----------------------------------------------------------------------------
(* handle_registration_flow over the session_data it can be handed: the     *)
(* entries of the wizard's three steps, with and without the collected      *)
(* fields. No request path stores an entry of the confirmation step without *)
(* a name and a location; the function is written to answer one all the     *)
(* same (the try/except at main.py:803, 862), so these runs start from one. *)

FlowEntries ==
    LET base(step) == [flow |-> "registration", step |-> step,
                       phone |-> "+254712345678"]
    IN UNION { { base(step),
                 DictSet(base(step), "name", "Alice"),
                 DictSet(base(step), "location", "Nairobi"),
                 DictSet(DictSet(base(step), "name", "Alice"), "location", "Nairobi") }
               : step \in {"name", "location", "confirmation"} }

FlowTexts == {"", "0", "1", "2", "Alice", "Nairobi"}

InitFlow ==
    /\ \E dial \in TesterDials, session_data \in FlowEntries :
         sessions = set_session(EmptyDict, dial.sessionId, session_data)
    /\ users_db = <<>>
    /\ emergency_reports = <<>>
    /\ gateway_calls = <<>>
    /\ response = ""
    /\ sim = [session_id |-> "", phone_number |-> "", text |-> "", pc |-> "off"]
    /\ served = 0
    /\ inflight = [active |-> <<>>, raced |-> FALSE]
    /\ api = NoResult

NextFlow ==
    \E dial \in TesterDials, text \in FlowTexts, now \in Clock, gw \in GatewayBehaviours :
        Ussd(dial.sessionId, dial.phoneNumber, text, now, gw)

SpecFlow == InitFlow /\ [][NextFlow]_vars

----------------------------------------------------------------------------
(* The users and alerts endpoints beside /ussd *)

AlertLocations == {"Westlands", "WESTLANDS", "west", "Kilimani", "Mars", "Nairobi"}

AlertMessages == {"Traffic jam on Waiyaki Way. Use alternative routes.", " "}

AlertTexts == {"2", "Alice", "Nairobi", "1"}

\* GET /users/location/{location}
GetUsersByLocation(location) ==
    LET users_in_location == get_users_by_location(users_db, location)
        users_list == [i \in 1..Len(users_in_location) |->
                          [name |-> users_in_location[i].name,
                           phone |-> users_in_location[i].phone_number,
                           location |-> users_in_location[i].location,
                           registration_date |-> users_in_location[i].registration_date]]
    IN /\ served < MaxRequests
       /\ served' = served + 1
       /\ api' = [endpoint |-> "/users/location", location |-> location, status |-> "200",
                  sent_count |-> Len(users_list), users |-> users_list, calls |-> <<>>]
       /\ UNCHANGED <<sessions, users_db, emergency_reports, gateway_calls, response, sim,
                      inflight>>

\* POST /send-location-alert
SendLocationAlert(location, message, gw) ==
    LET result == send_alert_to_location(users_db, location, Strip(message), gw)
    IN /\ served < MaxRequests
       /\ served' = served + 1
       /\ api' = IF message = "" \/ Strip(message) = "" \/ Len(Strip(message)) > 140
                 THEN [endpoint |-> "/send-location-alert", location |-> location,
                       status |-> "400", sent_count |-> 0, users |-> <<>>, calls |-> <<>>]
                 ELSE [endpoint |-> "/send-location-alert", location |-> location,
                       status |-> result.status, sent_count |-> result.sent_count,
                       users |-> <<>>, calls |-> result.calls]
       /\ UNCHANGED <<sessions, users_db, emergency_reports, gateway_calls, response, sim,
                      inflight>>

NextAlerts ==
    \/ \E rows \in CsvFiles, now \in Clock : UploadUsersCsv(rows, now)
    \/ \E dial \in TesterDials, text \in AlertTexts, now \in Clock :
           Ussd(dial.sessionId, dial.phoneNumber, text, now, "ok")
    \/ \E location \in AlertLocations : GetUsersByLocation(location)
    \/ \E location \in AlertLocations, message \in AlertMessages, gw \in GatewayBehaviours :
           SendLocationAlert(location, message, gw)

SpecAlerts == Init /\ [][NextAlerts]_vars

----------------------------------------------------------------------------
(* One session id whose requests do not all carry the same phoneNumber: the *)
(* handler takes both form fields from the request as they come.            *)

CallerPhones == {"+254712345678", "+254711123456"}

CallerTexts == {"2", "Alice", "Nairobi", "1"}

NextCallers ==
    \E dial \in TesterDials, phoneNumber \in CallerPhones, text \in CallerTexts,
       now \in Clock :
        Ussd(dial.sessionId, phoneNumber, text, now, "ok")

SpecCallers == Init /\ [][NextCallers]_vars

----------------------------------------------------------------------------
(* A caller who goes on sending requests on one session: the handler serves *)
(* each one, however many came before.                                       *)

CallerAnswers == {"", " ", "0", "1", "2", "9", "Alice", "Nairobi"}

\* one more POST /ussd request served
Answer(sessionId, phoneNumber, text, now, gw) ==
    LET out == ussd_handler(Shared, sessionId, phoneNumber, text, now, gw)
    IN /\ sessions' = out.sessions
       /\ users_db' = out.users_db
       /\ emergency_reports' = out.emergency_reports
       /\ gateway_calls' = out.gateway_calls
       /\ response' = out.response
       /\ UNCHANGED <<sim, served, inflight, api>>

\* the inputs a step takes: a non-blank text in the name and location steps,
\* one of the three options in the confirmation step
AcceptedTexts(step) ==
    IF step = "confirmation" THEN {"1", "2", "0"}
    ELSE {text \in CallerAnswers : text # "" /\ Strip(text) # ""}

\* the caller answers the wizard's current step with an input it takes
Accepted(sessionId, phoneNumber) ==
    /\ Has(sessions, sessionId)
    /\ \E text \in AcceptedTexts(Fmt(sessions[sessionId], "step")), now \in Clock :
         Answer(sessionId, phoneNumber, text, now, "ok")

NextWizard ==
    \E dial \in TesterDials, text \in CallerAnswers, now \in Clock :
        Answer(dial.sessionId, dial.phoneNumber, text, now, "ok")

\* the caller keeps sending and sooner or later sends an input the step takes
SpecWizard ==
    /\ Init
    /\ [][NextWizard]_vars
    /\ \A dial \in TesterDials : WF_vars(Accepted(dial.sessionId, dial.phoneNumber))

\* the state an outcome leaves
After(out) == [sessions |-> out.sessions, users_db |-> out.users_db,
               emergency_reports |-> out.emergency_reports]

\* the record stored for a phone, if any
RecordOf(db, phone_number) == get_user_by_phone(db, phone_number)

\* the step of this transition is the given request
IsRequest(sessionId, phoneNumber, text) ==
    \E now \in Clock, gw \in GatewayBehaviours : Ussd(sessionId, phoneNumber, text, now, gw)

---------------------------------------------------------------------------
(* C1. At most one user record per phone, never overwritten: no step of the *)
(* system (a wizard commit from any session, a bulk import) changes the     *)
(* name or the location of a record that is already in the registry, and    *)
(* no phone has two records.                                                *)
C1_RecordNeverOverwritten ==
    [][ /\ \A i \in 1..Len(users_db) :
              /\ i <= Len(users_db')
              /\ users_db'[i].phone_number = users_db[i].phone_number
              /\ users_db'[i].name = users_db[i].name
              /\ users_db'[i].location = users_db[i].location
        /\ \A i, j \in 1..Len(users_db') :
              users_db'[i].phone_number = users_db'[j].phone_number => i = j ]_vars

(* C2. Commit-time re-check: input "1" in the awaiting-confirmation step    *)
(* for a phone that is in the registry at that moment does not write the    *)
(* registry and does not return the success screen; it returns a terminal   *)
(* response and clears the session.                                         *)
C2_CommitRechecksRegistry ==
    [][ \A dial \in Dials :
          ( /\ in_registration_flow(get_session(sessions, dial.sessionId))
            /\ Fmt(get_session(sessions, dial.sessionId), "step") = "confirmation"
            /\ InUsers(users_db, dial.phoneNumber)
            /\ IsRequest(dial.sessionId, dial.phoneNumber, "1") )
          => /\ users_db' = users_db
             /\ ~StartsWith(response', "END Registration successful!")
             /\ StartsWith(response', "END ")
             /\ ~Has(sessions', dial.sessionId) ]_vars

(* C3. The report log is append-only: a confirmed emergency submission      *)
(* (depth-3 confirm with a valid type, no active flow) adds exactly one new *)
(* report at the end of the log, and every report already stored stays as   *)
(* it is.                                                                   *)
C3_ReportLogAppendOnly ==
    [][ /\ \A i \in 1..Len(emergency_reports) :
              i <= Len(emergency_reports') /\ emergency_reports'[i] = emergency_reports[i]
        /\ \A dial \in Dials :
              ( /\ ~in_registration_flow(get_session(sessions, dial.sessionId))
                /\ IsRequest(dial.sessionId, dial.phoneNumber, "1*1*1") )
              => Len(emergency_reports') = Len(emergency_reports) + 1 ]_vars

(* C4. Reference ids are unique per creation: the reference id a confirmed  *)
(* submission is answered with is the id of no report that another session  *)
(* id created.                                                              *)
C4_ReferenceIdsUnique ==
    [][ \A dial \in Dials :
          ( /\ ~in_registration_flow(get_session(sessions, dial.sessionId))
            /\ IsRequest(dial.sessionId, dial.phoneNumber, "1*1*1") )
          => \A i \in 1..Len(emergency_reports) :
                 emergency_reports[i].session_id # dial.sessionId
                 => ~Contains(response',
                              "Reference: " \o emergency_reports[i].reference_id \o "\n")
      ]_vars

\* the phones of the registered users other than the submitter whose location
\* equals the submitter's, ignoring case, in registry order
OtherLocalPhones(db, phone_number) ==
    LET me == RecordOf(db, phone_number)[1]
        others == SelectSeq(db, LAMBDA user :
                      /\ user.phone_number # phone_number
                      /\ Lower(user.location) = Lower(me.location))
    IN [i \in 1..Len(others) |-> others[i].phone_number]

(* C5. Emergency fan-out excludes the submitter: when a registered user     *)
(* confirms an emergency and the gateway accepts the send, the recipients   *)
(* are exactly the other registered users of the submitter's location       *)
(* (case-insensitive) and the response reports their number.                *)
C5_FanOutExcludesSubmitter ==
    [][ \A dial \in Dials :
          ( /\ ~in_registration_flow(get_session(sessions, dial.sessionId))
            /\ InUsers(users_db, dial.phoneNumber)
            /\ \E now \in Clock :
                   Ussd(dial.sessionId, dial.phoneNumber, "1*1*1", now, "ok") )
          => LET others == OtherLocalPhones(users_db, dial.phoneNumber)
             IN /\ \A c \in 1..Len(gateway_calls') : gateway_calls'[c].recipients = others
                /\ others # <<>> => Len(gateway_calls') = 1
                /\ Contains(response',
                            "\n[ok] " \o ToString(Len(others)) \o " local users notified")
      ]_vars

\* a response carries exactly one of the two protocol prefixes
HasProtocolPrefix(r) ==
    /\ StartsWith(r, "CON ") \/ StartsWith(r, "END ")
    /\ ~(StartsWith(r, "CON ") /\ StartsWith(r, "END "))

(* C6. Whatever the session state, the text, the phone, the registry and    *)
(* the report log are, the response of the USSD handler begins with exactly *)
(* one of the prefixes "CON " and "END ": the response of every request     *)
(* served so far does, and so does the response to every next request.      *)
C6_ResponsePrefix ==
    /\ response # "" => HasProtocolPrefix(response)
    /\ \A sessionId \in AllSessionIds, phoneNumber \in AllPhones, text \in AllTexts,
          now \in Clock, gw \in GatewayBehaviours :
         HasProtocolPrefix(ussd_handler(Shared, sessionId, phoneNumber, text, now, gw).response)

\* a served request answered with the wizard's confirmation screen, with a
\* registry and a report log that are not empty
C6_Witness ==
    /\ StartsWith(response, "CON Confirm registration:")
    /\ users_db # <<>>
    /\ emergency_reports # <<>>

\* the stored state of a session names the registration flow
FlowIsRegistration(sessionId) ==
    /\ Has(sessions, sessionId)
    /\ Has(sessions[sessionId], "flow")
    /\ sessions[sessionId]["flow"] = "registration"

(* C7. The flow override has first priority: while the session store holds  *)
(* an entry with flow = registration for the session id, every request on   *)
(* that id, whatever its text (among them "", "0", "1", "2", "1*1*1"), its  *)
(* phone and the gateway's behaviour, has the outcome of the wizard's step  *)
(* handler and no other: no report is created and no alert is sent, and in  *)
(* the name and location steps a non-blank text, "0" included, is stored as *)
(* the answer and the wizard moves on instead of showing the main menu.     *)
C7_FlowOverride ==
    \A sessionId \in DOMAIN sessions :
      FlowIsRegistration(sessionId) =>
        \A phoneNumber \in AllPhones, text \in AllTexts, now \in Clock,
           gw \in GatewayBehaviours :
          LET session_data == sessions[sessionId]
              step == Fmt(session_data, "step")
              out == ussd_handler(Shared, sessionId, phoneNumber, text, now, gw)
              wizard == handle_registration_flow(Shared, sessionId, phoneNumber, text,
                            IF text # "" THEN Split(text, "*") ELSE <<"">>,
                            session_data, now)
          IN /\ out = wizard
             /\ out.emergency_reports = emergency_reports
             /\ out.gateway_calls = <<>>
             /\ (step \in {"name", "location"} /\ Strip(text) # "")
                => /\ Has(out.sessions, sessionId)
                   /\ out.sessions[sessionId][step] = Strip(text)
                   /\ out.sessions[sessionId]["step"]
                        = (IF step = "name" THEN "location" ELSE "confirmation")
                   /\ out.response # get_main_menu
                   /\ StartsWith(out.response, "CON ")
             /\ (step \in {"name", "location"} /\ Strip(text) = "")
                => /\ out.sessions = sessions
                   /\ out.response = (IF step = "name"
                                      THEN "CON Please enter your full name:"
                                      ELSE "CON Please enter your location/area:")

\* a wizard that took "1*1*1" as the name and "0" as the location, and no
\* report in the log
C7_Witness ==
    /\ emergency_reports = <<>>
    /\ \E sessionId \in DOMAIN sessions :
         /\ FlowIsRegistration(sessionId)
         /\ Fmt(sessions[sessionId], "name") = "1*1*1"
         /\ Fmt(sessions[sessionId], "location") = "0"
         /\ Fmt(sessions[sessionId], "step") = "confirmation"

(* C8. The registration wizard: for a phone that is not in the registry and *)
(* a session id with no stored state, the texts "2", "Alice", "Nairobi",    *)
(* "1" sent in that order on that session id are answered with three CON    *)
(* responses and then the END success response containing "Alice" and       *)
(* "Nairobi"; afterwards the registry maps the phone to a record with name  *)
(* "Alice" and location "Nairobi" and the session has no stored state.      *)
C8_WizardScenario ==
    \A sessionId \in AllSessionIds, phoneNumber \in AllPhones, now \in Clock,
       gw \in GatewayBehaviours :
      (~Has(sessions, sessionId) /\ ~InUsers(users_db, phoneNumber)) =>
        LET o1 == ussd_handler(Shared, sessionId, phoneNumber, "2", now, gw)
            o2 == ussd_handler(After(o1), sessionId, phoneNumber, "Alice", now, gw)
            o3 == ussd_handler(After(o2), sessionId, phoneNumber, "Nairobi", now, gw)
            o4 == ussd_handler(After(o3), sessionId, phoneNumber, "1", now, gw)
        IN /\ StartsWith(o1.response, "CON ")
           /\ StartsWith(o2.response, "CON ")
           /\ StartsWith(o3.response, "CON ")
           /\ StartsWith(o4.response, "END Registration successful!")
           /\ Contains(o4.response, "Alice")
           /\ Contains(o4.response, "Nairobi")
           /\ Len(RecordOf(o4.users_db, phoneNumber)) = 1
           /\ RecordOf(o4.users_db, phoneNumber)[1].name = "Alice"
           /\ RecordOf(o4.users_db, phoneNumber)[1].location = "Nairobi"
           /\ ~Has(o4.sessions, sessionId)

\* the wizard's four requests served one after the other: the success
\* response, the record in the registry, no stored session
C8_Witness ==
    /\ served = 4
    /\ StartsWith(response, "END Registration successful!")
    /\ Contains(response, "Alice") /\ Contains(response, "Nairobi")
    /\ sessions = EmptyDict
    /\ \E phoneNumber \in AllPhones :
         /\ users_db = <<RecordOf(users_db, phoneNumber)[1]>>
         /\ users_db[1].name = "Alice"
         /\ users_db[1].location = "Nairobi"

(* C9. The wizard under the gateway's protocol, in which every request      *)
(* carries the whole path: once the client has sent "2", "2*Alice",         *)
(* "2*Alice*Nairobi" and "2*Alice*Nairobi*1" on one session id for a phone  *)
(* that was not registered, the response is the registration success and    *)
(* the registry holds the phone with name "Alice" and location "Nairobi".   *)
C9_AccumulatedPathRegisters ==
    (sim.pc \in {"input", "ended"} /\ sim.text = "2*Alice*Nairobi*1") =>
        /\ StartsWith(response, "END Registration successful!")
        /\ InUsers(users_db, sim.phone_number)
        /\ RecordOf(users_db, sim.phone_number)[1].name = "Alice"
        /\ RecordOf(users_db, sim.phone_number)[1].location = "Nairobi"

(* C10. Duplicate registration at the wizard's entry: when the caller's     *)
(* phone is in the registry and the session has no active flow, text "2" is *)
(* answered with an END response showing the name and the location of the   *)
(* existing record, the session store has no entry for the session id       *)
(* afterwards, and the registry is unchanged.                               *)
C10_DuplicateAtEntry ==
    \A sessionId \in AllSessionIds, phoneNumber \in AllPhones, now \in Clock,
       gw \in GatewayBehaviours :
      ( /\ ~in_registration_flow(get_session(sessions, sessionId))
        /\ InUsers(users_db, phoneNumber) ) =>
        LET existing_user == RecordOf(users_db, phoneNumber)[1]
            out == ussd_handler(Shared, sessionId, phoneNumber, "2", now, gw)
        IN /\ StartsWith(out.response, "END ")
           /\ Contains(out.response, "Name: " \o existing_user.name \o "\n")
           /\ Contains(out.response, "Location: " \o existing_user.location \o "\n")
           /\ ~Has(out.sessions, sessionId)
           /\ out.sessions = sessions
           /\ out.users_db = users_db

\* a registered caller answered with the record at the wizard's entry, and no
\* session left behind
C10_Witness ==
    /\ sessions = EmptyDict
    /\ \E dial \in Dials :
         /\ InUsers(users_db, dial.phoneNumber)
         /\ StartsWith(response,
                "END You are already registered!\nName: "
                \o RecordOf(users_db, dial.phoneNumber)[1].name \o "\nLocation: "
                \o RecordOf(users_db, dial.phoneNumber)[1].location \o "\n")

\* the request of the step is one that raised
IsRaisingRequest(sessionId, phoneNumber, text, at) ==
    \E now \in Clock, gw \in GatewayBehaviours :
        UssdRaises(sessionId, phoneNumber, text, now, gw, at)

(* C11. Fail-safe error handling: when a step of handling a request raises, *)
(* in the menu dispatch, after the report was stored, or in the wizard, the *)
(* caller receives an END-prefixed error response (no exception leaves the  *)
(* handler) and the session store has no entry for the session id           *)
(* afterwards.                                                              *)
C11_FailSafe ==
    [][ \A dial \in TesterDials, text \in Texts, at \in RaisePoints :
          IsRaisingRequest(dial.sessionId, dial.phoneNumber, text, at)
          => /\ StartsWith(response', "END ")
             /\ Contains(response', "error")
             /\ ~Has(sessions', dial.sessionId) ]_vars

\* a request that raised inside the wizard: the wizard's error screen, and the
\* session entry that was there is gone
C11_Witness ==
    /\ response = "END Registration error. Please try again later."
    /\ sessions = EmptyDict
    /\ served >= 2

\* the texts tried as the next request of a session in the menu
NavTexts ==
    MenuTexts \cup AllTexts
    \cup {"4*1", "3*0", "3*1", "0*1", "*0", "2*0", "1*2", "1*2*1", "2*1*1", "4*0*1",
          "4*0*0", "2*1*2", "0*1*1"}

\* the texts of depth 2 or 3 whose first segment is not the emergency digit
OffBranchTexts ==
    {text \in NavTexts : /\ text # ""
                         /\ Len(Split(text, "*")) \in {2, 3}
                         /\ Split(text, "*")[1] # "1"}

\* no registration flow is stored for the session id
NoActiveFlow(sessionId) ==
    ~(Has(sessions, sessionId) /\ Has(sessions[sessionId], "flow")
      /\ sessions[sessionId]["flow"] = "registration")

(* C12, as claimed. With no active flow, every text of depth 2 or 3 whose   *)
(* first segment is not "1" is answered with the fallback 'END Session      *)
(* ended...' and the session is cleared.                                    *)
C12_OffBranchFallsBack ==
    [][ \A dial \in TesterDials, text \in OffBranchTexts \cap MenuTexts :
          (NoActiveFlow(dial.sessionId)
           /\ IsRequest(dial.sessionId, dial.phoneNumber, text))
          => /\ response' = "END Session ended. Dial again to restart."
             /\ ~Has(sessions', dial.sessionId) ]_vars

(* C12, amended. With no active flow, every text of depth 2 or 3 whose      *)
(* first segment is not "1" is answered with the fallback 'END Session      *)
(* ended...' and the session is cleared, except "4*0" (back from help),     *)
(* which is answered with the main menu; none of these texts reaches the    *)
(* emergency logic: no report is created and no alert is sent.              *)
C12_OffBranchFallsBackButHelpBack ==
    \A sessionId \in AllSessionIds, phoneNumber \in AllPhones, text \in OffBranchTexts,
       now \in Clock, gw \in GatewayBehaviours :
      NoActiveFlow(sessionId) =>
        LET out == ussd_handler(Shared, sessionId, phoneNumber, text, now, gw)
        IN /\ out.response = (IF text = "4*0" THEN get_main_menu
                              ELSE "END Session ended. Dial again to restart.")
           /\ ~Has(out.sessions, sessionId)
           /\ out.emergency_reports = emergency_reports
           /\ out.users_db = users_db
           /\ out.gateway_calls = <<>>

\* a first request answered with the fallback
C12_Witness ==
    /\ served = 1
    /\ response = "END Session ended. Dial again to restart."
    /\ sessions = EmptyDict
    /\ emergency_reports = <<>>

(* C13. Back navigation from help: the help digit is answered with the help *)
(* screen, and once it has been shown, the text '<help digit>*0' is         *)
(* answered with the main menu, a CON response containing 'Welcome to       *)
(* KASA', so the session continues.                                         *)
C13_BackFromHelp ==
    /\ (sim.pc \in {"input", "ended"} /\ sim.text = "4")
         => (response = get_help_menu /\ sim.pc = "input")
    /\ (sim.pc \in {"input", "ended"} /\ sim.text = "4*0")
         => /\ response = get_main_menu
            /\ StartsWith(response, "CON ")
            /\ Contains(response, "Welcome to KASA")
            /\ sim.pc = "input"

\* the client has sent "4" and then "4*0" and reads the main menu
C13_Witness ==
    /\ sim.text = "4*0"
    /\ sim.pc = "input"
    /\ Contains(response, "Welcome to KASA")

(* C14. Idempotence after a terminal response: when a request has been      *)
(* answered with an END response, the same request sent again (same session *)
(* id, same text, same phone) is answered with the main menu, and does not  *)
(* repeat the action: the registry and the report log stay as they are and  *)
(* no alert is sent.                                                        *)
C14_RepeatAfterEndShowsRoot ==
    [][ \A dial \in TesterDials, text \in MenuTexts :
          ( /\ IsRequest(dial.sessionId, dial.phoneNumber, text)
            /\ StartsWith(response', "END ") )
          => \A now \in Clock, gw \in GatewayBehaviours :
               LET again == ussd_handler(Shared', dial.sessionId, dial.phoneNumber,
                                         text, now, gw)
               IN /\ again.response = get_main_menu
                  /\ again.users_db = users_db'
                  /\ again.emergency_reports = emergency_reports'
                  /\ again.gateway_calls = <<>> ]_vars

(* C15. Root equivalence: for every session id with no stored state and     *)
(* every phone, the texts "" and "0" are answered with the same response,   *)
(* the main menu (a CON response); after either the session store still has *)
(* no entry for the session id, and the registry and the report log are     *)
(* unchanged.                                                               *)
C15_RootEquivalence ==
    \A sessionId \in AllSessionIds, phoneNumber \in AllPhones, now \in Clock,
       gw \in GatewayBehaviours :
      ~Has(sessions, sessionId) =>
        LET empty == ussd_handler(Shared, sessionId, phoneNumber, "", now, gw)
            zero == ussd_handler(Shared, sessionId, phoneNumber, "0", now, gw)
        IN /\ empty.response = zero.response
           /\ StartsWith(empty.response, "CON Welcome to KASA")
           /\ \A out \in {empty, zero} :
                /\ ~Has(out.sessions, sessionId)
                /\ out.sessions = sessions
                /\ out.users_db = users_db
                /\ out.emergency_reports = emergency_reports
                /\ out.gateway_calls = <<>>

\* one session in the wizard, the other answered with the main menu and
\* without stored state
C15_Witness ==
    /\ response = get_main_menu
    /\ Has(sessions, "docs_test_001")
    /\ ~Has(sessions, "docs_test_002")
    /\ served = 2

\* the client has sent its path and has the answer
SimAnswered(text) == sim.pc \in {"input", "ended"} /\ sim.text = text

\* the reports of a phone in the log
ReportsOf(phone_number) ==
    {i \in 1..Len(emergency_reports) : emergency_reports[i].phone_number = phone_number}

ConfirmTexts == {"1*1*1", "1*4*1"}

(* C17. A failure of the notification gateway does not undo an emergency    *)
(* submission: when the send raises during the fan-out of a confirmed       *)
(* emergency, the report is in the log exactly as it is when the send       *)
(* succeeds, every other report is unchanged, the session is cleared, and   *)
(* the response is the END acknowledgement with the emergency type and the  *)
(* reference id, without the line of the notified count.                    *)
C17_GatewayFailureKeepsReport ==
    /\ (gateway_calls # <<>> /\ gateway_calls[1].outcome = "raise")
       => /\ \E text \in ConfirmTexts :
               StartsWith(response,
                          "END " \o emergency_types[Split(text, "*")[2]] \o " alert sent!\n")
          /\ \E i \in 1..Len(emergency_reports) :
               Contains(response,
                        "Reference: " \o emergency_reports[i].reference_id \o "\n")
          /\ ~Contains(response, "notified")
    /\ \A sessionId \in AllSessionIds, phoneNumber \in AllPhones, text \in ConfirmTexts,
          now \in Clock :
         (NoActiveFlow(sessionId) /\ InUsers(users_db, phoneNumber)) =>
           LET failed == ussd_handler(Shared, sessionId, phoneNumber, text, now, "raise")
               sent == ussd_handler(Shared, sessionId, phoneNumber, text, now, "ok")
               alert_type == emergency_types[Split(text, "*")[2]]
               reference_id == reference_id_of(sessionId)
           IN /\ failed.emergency_reports = sent.emergency_reports
              /\ \E i \in 1..Len(failed.emergency_reports) :
                   /\ failed.emergency_reports[i].reference_id = reference_id
                   /\ failed.emergency_reports[i].emergency_type = alert_type
                   /\ failed.emergency_reports[i].phone_number = phoneNumber
              /\ \A i \in 1..Len(emergency_reports) :
                   emergency_reports[i].reference_id # reference_id
                   => \E j \in 1..Len(failed.emergency_reports) :
                        failed.emergency_reports[j] = emergency_reports[i]
              /\ ~Has(failed.sessions, sessionId)
              /\ failed.gateway_calls # <<>>
              /\ StartsWith(failed.response, "END " \o alert_type \o " alert sent!\n")
              /\ Contains(failed.response, "Reference: " \o reference_id \o "\n")
              /\ ~Contains(failed.response, "notified")
              /\ Contains(sent.response, "notified")

\* a registered caller's emergency whose fan-out raised: the report is stored
\* and the caller has the acknowledgement
C17_Witness ==
    /\ gateway_calls # <<>>
    /\ gateway_calls[1].outcome = "raise"
    /\ StartsWith(response, "END Fire Emergency alert sent!\nReference: EMR-")
    /\ \E i \in 1..Len(emergency_reports) :
         /\ emergency_reports[i].emergency_type = "Fire Emergency"
         /\ InUsers(users_db, emergency_reports[i].phone_number)

\* texts with a terminal answer or the main menu for an answer, in the menu or
\* in some step of the wizard, and texts without
TerminalTexts ==
    {"", "0", "1", "2", "3", "4", "9", "1*0", "4*0", "1*9", "2*1", "1*1",
     "1*1*0", "1*1*1", "1*1*2", "1*1*1*1", "Alice"}

(* C18. Sessions are destroyed on every terminal outcome: after a request   *)
(* answered with an END response (wizard completed or cancelled, already    *)
(* registered, invalid option, invalid emergency type, emergency sent or    *)
(* cancelled, fallback), and after a request answered with the main menu,   *)
(* the session store has no entry for the request's session id.             *)
C18_TerminalOutcomeDestroysSession ==
    \A sessionId \in AllSessionIds, phoneNumber \in AllPhones, text \in TerminalTexts,
       now \in Clock, gw \in GatewayBehaviours :
      LET out == ussd_handler(Shared, sessionId, phoneNumber, text, now, gw)
      IN (StartsWith(out.response, "END ") \/ out.response = get_main_menu)
         => ~Has(out.sessions, sessionId)

\* a wizard cancelled at its confirmation: the END response and no session
C18_Witness ==
    /\ response = "END Registration cancelled."
    /\ sessions = EmptyDict
    /\ users_db = <<>>

\* the paths the screens offer: the options of the main menu, of the
\* emergency menu under "1", of the confirmation under a type, and the way
\* back from help
Routed(text) ==
    LET text_array == IF text # "" THEN Split(text, "*") ELSE <<"">>
    IN \/ text \in {"", "0"}
       \/ Len(text_array) = 1 /\ text \in {"1", "2", "3", "4"}
       \/ /\ Len(text_array) = 2
          /\ \/ text_array[1] = "1" /\ text_array[2] \in DOMAIN emergency_types \cup {"0"}
             \/ text = "4*0"
       \/ /\ Len(text_array) = 3
          /\ text_array[1] = "1"
          /\ text_array[2] \in DOMAIN emergency_types
          /\ text_array[3] \in {"1", "2", "0"}

(* C19. Malformed navigation is recovered locally: with no active flow, a   *)
(* text that matches no menu route (an unmatched digit at depth 1, an       *)
(* unmatched emergency type, a depth above 3, any other unmatched shape) is *)
(* answered with an END response, the session has no stored state           *)
(* afterwards, and the registry and the report log are unchanged.           *)
C19_MalformedNavigationEnds ==
    [][ \A dial \in TesterDials, text \in {t \in MenuTexts : ~Routed(t)} :
          ( /\ NoActiveFlow(dial.sessionId)
            /\ IsRequest(dial.sessionId, dial.phoneNumber, text) )
          => /\ StartsWith(response', "END ")
             /\ ~Has(sessions', dial.sessionId)
             /\ users_db' = users_db
             /\ emergency_reports' = emergency_reports ]_vars

\* an entry of the session store as the requests served one after the other
\* leave it: made by the wizard's entry, then one answer added per step
SerialEntry(entry) ==
    /\ {"flow", "step", "phone"} \subseteq DOMAIN entry
    /\ entry["flow"] = "registration"
    /\ \/ entry["step"] = "name" /\ DOMAIN entry = {"flow", "step", "phone"}
       \/ entry["step"] = "location" /\ DOMAIN entry = {"flow", "step", "phone", "name"}
       \/ /\ entry["step"] = "confirmation"
          /\ DOMAIN entry = {"flow", "step", "phone", "name", "location"}

\* no request is in the middle of its handler
NoneRunning ==
    \A i \in 1..Len(inflight.active) : inflight.active[i].pc # "running"

C21_TopLevelDigitsOfTests ==
    [][ \A dial \in TesterDials :
          ~Has(sessions, dial.sessionId) =>
            /\ IsRequest(dial.sessionId, dial.phoneNumber, "2")
               => /\ StartsWith(response', "END ")
                  /\ Contains(response', "System is operational")
                  /\ ~Has(sessions', dial.sessionId)
            /\ IsRequest(dial.sessionId, dial.phoneNumber, "3")
               => /\ Contains(response', "KASA Help")
                  /\ ~Has(sessions', dial.sessionId) ]_vars

\* depth-3 texts under "1" whose second segment is no emergency type
InvalidTypeTexts(last) ==
    {"1*" \o X \o "*" \o last : X \in {"9", "0", "5", "", "11", "x"}}

(* C22. Depth invariant on segment 2: with no active flow, a depth-3 text   *)
(* "1*X*2" or "1*X*0" whose X is none of the emergency types 1..4 is        *)
(* answered with the generic fallback END response, never with 'Alert       *)
(* cancelled' or the main menu.                                             *)
C22_InvalidTypeFallsBack ==
    [][ \A dial \in TesterDials,
           text \in (InvalidTypeTexts("2") \cup InvalidTypeTexts("0")) \cap MenuTexts :
          ( /\ NoActiveFlow(dial.sessionId)
            /\ IsRequest(dial.sessionId, dial.phoneNumber, text) )
          => /\ response' = "END Session ended. Dial again to restart."
             /\ response' # get_main_menu
             /\ ~Contains(response', "Alert cancelled") ]_vars

\* the labels of the fixed enumeration
EmergencyTypeLabels == {emergency_types[k] : k \in DOMAIN emergency_types}

(* C23. Every report in the log has an emergency type of the fixed set      *)
(* {Fire Emergency, Medical Emergency, Security Alert, Natural Disaster}: a *)
(* depth-3 confirm "1*X*1" with X outside 1..4 creates no report, sends no  *)
(* notification and is answered with the generic fallback END response.     *)
C23_ReportTypesFromEnumeration ==
    /\ EmergencyTypeLabels
         = {"Fire Emergency", "Medical Emergency", "Security Alert", "Natural Disaster"}
    /\ \A i \in 1..Len(emergency_reports) :
         emergency_reports[i].emergency_type \in EmergencyTypeLabels
    /\ \A sessionId \in AllSessionIds, phoneNumber \in AllPhones,
          text \in InvalidTypeTexts("1"), now \in Clock, gw \in GatewayBehaviours :
         NoActiveFlow(sessionId) =>
           LET out == ussd_handler(Shared, sessionId, phoneNumber, text, now, gw)
           IN /\ out.emergency_reports = emergency_reports
              /\ out.gateway_calls = <<>>
              /\ out.response = "END Session ended. Dial again to restart."

\* a registered caller with a report in the log is answered with the
\* fallback: the log still holds the one report
C23_Witness ==
    /\ response = "END Session ended. Dial again to restart."
    /\ gateway_calls = <<>>
    /\ Len(emergency_reports) = 1
    /\ emergency_reports[1].emergency_type = "Fire Emergency"
    /\ InUsers(users_db, emergency_reports[1].phone_number)

\* the wizard's step stored for a session, "none" when nothing is stored
StepOf(store, sessionId) ==
    IF Has(store, sessionId) THEN Fmt(store[sessionId], "step") ELSE "none"

WizardTexts == {"", " ", "0", "1", "2", "9", "Alice", " Bob ", "1*1*1"}

(* C24. The wizard's steps advance only in the order name, location,        *)
(* confirmation: a wizard opens at name, a non-blank input moves name to    *)
(* location and location to confirmation (one step each), a blank input     *)
(* moves nothing, and confirmation is left only by removal of the entry;    *)
(* the USSD handler writes the registry only when it leaves confirmation    *)
(* with input "1".                                                          *)
C24_WizardOrder ==
    \A sessionId \in AllSessionIds, phoneNumber \in AllPhones, text \in WizardTexts,
       now \in Clock, gw \in GatewayBehaviours :
      LET out == ussd_handler(Shared, sessionId, phoneNumber, text, now, gw)
          before == StepOf(sessions, sessionId)
          after == StepOf(out.sessions, sessionId)
          blank == Strip(text) = ""
      IN /\ before \in {"none", "name", "location", "confirmation"}
         /\ before = "none" => after \in {"none", "name"}
         /\ before = "name" => after = IF blank THEN "name" ELSE "location"
         /\ before = "location" => after = IF blank THEN "location" ELSE "confirmation"
         /\ before = "confirmation" => after \in {"confirmation", "none"}
         /\ out.users_db # users_db
              => before = "confirmation" /\ text = "1" /\ after = "none"
         /\ \A other \in DOMAIN sessions \ {sessionId} :
              StepOf(out.sessions, other) = StepOf(sessions, other)

\* one wizard gone through all its steps and committed while another
\* session's wizard still waits at its first step
C24_Witness ==
    /\ served = MaxRequests
    /\ StartsWith(response, "END Registration successful!")
    /\ StepOf(sessions, "docs_test_001") = "none"
    /\ StepOf(sessions, "docs_test_002") = "name"
    /\ InUsers(users_db, "+254712345678")

BlankTexts == {"", " ", "  "}

(* C25. Blank input does not advance the wizard: in the name step and in    *)
(* the location step an empty or whitespace-only text is answered with a    *)
(* CON re-prompt, and the stored sessions (step and collected fields), the  *)
(* registry and the report log stay exactly as they were.                   *)
C25_BlankInputReprompts ==
    \A sessionId \in DOMAIN sessions, phoneNumber \in AllPhones, text \in BlankTexts,
       now \in Clock, gw \in GatewayBehaviours :
      StepOf(sessions, sessionId) \in {"name", "location"} =>
        LET out == ussd_handler(Shared, sessionId, phoneNumber, text, now, gw)
        IN /\ out.response = IF StepOf(sessions, sessionId) = "name"
                             THEN "CON Please enter your full name:"
                             ELSE "CON Please enter your location/area:"
           /\ StartsWith(out.response, "CON ")
           /\ out.sessions = sessions
           /\ out.users_db = users_db
           /\ out.emergency_reports = emergency_reports
           /\ out.gateway_calls = <<>>

\* the location step re-prompted after a blank text, the name kept
C25_Witness ==
    /\ response = "CON Please enter your location/area:"
    /\ StepOf(sessions, "test_session_12345") = "location"
    /\ Has(sessions["test_session_12345"], "name")
    /\ ~Has(sessions["test_session_12345"], "location")

(* C26. In the confirmation step any input other than "1", "2" and "0" is   *)
(* answered with the CON confirmation prompt carrying the stored name and   *)
(* location; the stored sessions and the registry are unchanged, and the    *)
(* same input repeated is answered the same way.                            *)
C26_ConfirmationRedisplayed ==
    \A sessionId \in DOMAIN sessions, phoneNumber \in AllPhones,
       text \in (WizardTexts \cup {"2*Alice*Nairobi*4"}) \ {"1", "2", "0"},
       now \in Clock, gw \in GatewayBehaviours :
      StepOf(sessions, sessionId) = "confirmation" =>
        LET out == ussd_handler(Shared, sessionId, phoneNumber, text, now, gw)
            again == ussd_handler(After(out), sessionId, phoneNumber, text, now, gw)
            prompt == "CON Confirm registration:\nName: " \o sessions[sessionId].name
                      \o "\nLocation: " \o sessions[sessionId].location
                      \o "\n1. Confirm\n2. Cancel\n0. Main Menu"
        IN /\ out.response = prompt
           /\ out.sessions = sessions
           /\ out.users_db = users_db
           /\ out.emergency_reports = emergency_reports
           /\ again.response = prompt
           /\ again.sessions = sessions
           /\ again.users_db = users_db

\* the simulator's fourth input answered while its wizard stays in the
\* confirmation step
C26_Witness ==
    /\ \E last \in SimInputs : SimAnswered("2*Alice*Nairobi*" \o last)
    /\ StepOf(sessions, sim.session_id) = "confirmation"
    /\ StartsWith(response, "CON Confirm registration:")

(* C27. Leaving the confirmation step without confirming writes nothing:    *)
(* "2" is answered 'END Registration cancelled.' and "0" with the main      *)
(* menu CON screen; in both cases the session's entry is removed, the       *)
(* registry is unchanged (no record for the phone is created) and a wizard  *)
(* opened afterwards holds no name and no location.                         *)
C27_CancelWritesNothing ==
    \A sessionId \in DOMAIN sessions, phoneNumber \in AllPhones,
       now \in Clock, gw \in GatewayBehaviours :
      StepOf(sessions, sessionId) = "confirmation" =>
        LET cancel == ussd_handler(Shared, sessionId, phoneNumber, "2", now, gw)
            back == ussd_handler(Shared, sessionId, phoneNumber, "0", now, gw)
            reopened == ussd_handler(After(cancel), sessionId, phoneNumber, "2", now, gw)
        IN /\ cancel.response = "END Registration cancelled."
           /\ back.response = get_main_menu
           /\ StartsWith(back.response, "CON ")
           /\ ~Has(cancel.sessions, sessionId)
           /\ ~Has(back.sessions, sessionId)
           /\ cancel.users_db = users_db
           /\ back.users_db = users_db
           /\ cancel.sessions = back.sessions
           /\ Has(reopened.sessions, sessionId)
                => /\ ~Has(reopened.sessions[sessionId], "name")
                   /\ ~Has(reopened.sessions[sessionId], "location")

\* a wizard cancelled at its confirmation step: nothing stored, nobody
\* registered
C27_Witness ==
    /\ served = 4
    /\ response = "END Registration cancelled."
    /\ sessions = EmptyDict
    /\ users_db = <<>>

(* C28. Missing prerequisite data ends the session and nothing else: when   *)
(* the stored entry is in the confirmation step without a name or without a *)
(* location and the input is "1", the handler returns an END error          *)
(* response, the session's entry is removed and the registry is unchanged   *)
(* (no record is created for the phone).                                    *)
C28_MissingDataEndsSession ==
    \A sessionId \in DOMAIN sessions, phoneNumber \in AllPhones,
       now \in Clock, gw \in GatewayBehaviours :
      ( /\ StepOf(sessions, sessionId) = "confirmation"
        /\ ~(Has(sessions[sessionId], "name") /\ Has(sessions[sessionId], "location")) )
      => LET out == ussd_handler(Shared, sessionId, phoneNumber, "1", now, gw)
         IN /\ StartsWith(out.response, "END ")
            /\ Contains(out.response, "error")
            /\ ~Has(out.sessions, sessionId)
            /\ out.users_db = users_db
            /\ ~InUsers(users_db, phoneNumber) => ~InUsers(out.users_db, phoneNumber)
            /\ out.emergency_reports = emergency_reports

\* the first request, "1" on an entry without its data, answered with the
\* error: no entry, nobody registered
C28_Witness ==
    /\ served = 1
    /\ response = "END Registration error. Please try again later."
    /\ sessions = EmptyDict
    /\ users_db = <<>>

(* C29. An emergency confirmed by a phone that is not in the registry       *)
(* creates the report and is answered with the END acknowledgement, with no *)
(* call of the notification gateway and no 'local users notified' line in   *)
(* the response.                                                            *)
C29_UnregisteredSubmitter ==
    \A sessionId \in AllSessionIds, phoneNumber \in AllPhones, text \in ConfirmTexts,
       now \in Clock, gw \in GatewayBehaviours :
      (NoActiveFlow(sessionId) /\ ~InUsers(users_db, phoneNumber)) =>
        LET out == ussd_handler(Shared, sessionId, phoneNumber, text, now, gw)
        IN /\ StartsWith(out.response, "END ")
           /\ Contains(out.response, "alert sent!")
           /\ ~Contains(out.response, "local users notified")
           /\ out.gateway_calls = <<>>
           /\ \E i \in 1..Len(out.emergency_reports) :
                /\ out.emergency_reports[i].phone_number = phoneNumber
                /\ out.emergency_reports[i].session_id = sessionId
                /\ out.emergency_reports[i].timestamp = now

\* an unregistered caller's report in the log while others are registered:
\* acknowledged, nobody notified
C29_Witness ==
    /\ users_db # <<>>
    /\ Len(emergency_reports) = 1
    /\ ~InUsers(users_db, emergency_reports[1].phone_number)
    /\ gateway_calls = <<>>
    /\ StartsWith(response, "END Fire Emergency alert sent!")
    /\ ~Contains(response, "local users notified")

(* C30. The emergency acknowledgement agrees with the stored report: for    *)
(* every type digit k of 1..4, "1*k*1" is answered with an END response     *)
(* that contains the label of type k (the label the confirmation screen of  *)
(* "1*k" shows), the reference id 'EMR-' followed by the first 8 characters *)
(* of the session id, and the location descriptor derived from the phone's  *)
(* prefix; the report stored under that reference id has that label, the    *)
(* request's phone and session id, and status 'pending'.                    *)
C30_AcknowledgementAgreesWithReport ==
    \A sessionId \in AllSessionIds, phoneNumber \in AllPhones,
       k \in {"1", "2", "3", "4"}, now \in Clock, gw \in GatewayBehaviours :
      NoActiveFlow(sessionId) =>
        LET label == CASE k = "1" -> "Fire Emergency"
                       [] k = "2" -> "Medical Emergency"
                       [] k = "3" -> "Security Alert"
                       [] k = "4" -> "Natural Disaster"
            ref == "EMR-" \o SubSeq(sessionId, 1, 8)
            screen == ussd_handler(Shared, sessionId, phoneNumber, "1*" \o k, now, gw)
            out == ussd_handler(Shared, sessionId, phoneNumber, "1*" \o k \o "*1", now, gw)
            stored == SelectSeq(out.emergency_reports, LAMBDA r : r.reference_id = ref)
        IN /\ screen.response = "CON Confirm sending " \o label
                                \o "?\n1. Yes, Send Alert\n2. No, Cancel\n0. Main Menu"
           /\ StartsWith(out.response,
                         "END " \o label \o " alert sent!\nReference: " \o ref
                         \o "\nLocation: "
                         \o format_location_for_sms(get_location_from_phone(phoneNumber))
                         \o "\n")
           /\ Len(stored) = 1
           /\ stored[1].emergency_type = label
           /\ stored[1].phone_number = phoneNumber
           /\ stored[1].session_id = sessionId
           /\ stored[1].status = "pending"

\* the tester's fire alert acknowledged with the reference id under which
\* the pending report is stored
C30_Witness ==
    /\ Contains(response, "Fire Emergency alert sent!\nReference: EMR-test_ses\n")
    /\ Len(emergency_reports) = 1
    /\ emergency_reports[1].reference_id = "EMR-test_ses"
    /\ emergency_reports[1].session_id = "test_session_12345"
    /\ emergency_reports[1].emergency_type = "Fire Emergency"
    /\ emergency_reports[1].status = "pending"

\* the back sentinel inside the emergency branch
BackTexts == {"1*0"} \cup {"1*" \o k \o "*0" : k \in {"1", "2", "3", "4"}}

(* C31. The back sentinel inside the emergency branch returns to the root:  *)
(* with no active flow, "1*0" and "1*k*0" for a valid type k are answered   *)
(* with exactly the main-menu CON response the empty text is answered with, *)
(* the report log is unchanged, and the session has no stored state         *)
(* afterwards.                                                              *)
C31_BackReturnsToRoot ==
    \A sessionId \in AllSessionIds \cup SimSessionIds, phoneNumber \in AllPhones,
       text \in BackTexts, now \in Clock, gw \in GatewayBehaviours :
      NoActiveFlow(sessionId) =>
        LET out == ussd_handler(Shared, sessionId, phoneNumber, text, now, gw)
            root == ussd_handler(Shared, sessionId, phoneNumber, "", now, gw)
        IN /\ out.response = root.response
           /\ out.response = get_main_menu
           /\ StartsWith(out.response, "CON ")
           /\ out.emergency_reports = emergency_reports
           /\ out.gateway_calls = <<>>
           /\ ~Has(out.sessions, sessionId)
           /\ out.users_db = users_db

\* the simulator's user went into the emergency branch, chose a type and
\* went back: the main menu, nothing reported, nothing stored
C31_Witness ==
    /\ SimAnswered("1*1*0")
    /\ response = get_main_menu
    /\ emergency_reports = <<>>
    /\ ~Has(sessions, sim.session_id)

\* the store cut down to one session's entry
OnlySession(store, sessionId) ==
    [s \in DOMAIN store \cap {sessionId} |-> store[s]]

IndependenceTexts == {"", "0", "1", "2", "9", "Alice", "1*1*1", "1*9*1"}

(* C32. Requests on different session ids are independent: a request for   *)
(* session A never creates, changes or removes the stored entry of another  *)
(* session B, and what A's request is answered with and does to the         *)
(* registry and the report log is the same whatever entries other sessions  *)
(* have stored.                                                             *)
C32_SessionsIndependent ==
    \A A \in AllSessionIds, phoneNumber \in AllPhones, text \in IndependenceTexts,
       now \in Clock, gw \in GatewayBehaviours :
      LET out == ussd_handler(Shared, A, phoneNumber, text, now, gw)
          alone == ussd_handler([Shared EXCEPT !.sessions = OnlySession(sessions, A)],
                                A, phoneNumber, text, now, gw)
      IN /\ \A B \in AllSessionIds \ {A} :
              /\ Has(out.sessions, B) = Has(sessions, B)
              /\ Has(sessions, B) => out.sessions[B] = sessions[B]
         /\ DOMAIN out.sessions \subseteq DOMAIN sessions \cup {A}
         /\ out.response = alone.response
         /\ out.users_db = alone.users_db
         /\ out.emergency_reports = alone.emergency_reports
         /\ out.gateway_calls = alone.gateway_calls
         /\ OnlySession(out.sessions, A) = alone.sessions

\* two sessions' wizards stored at the same time, one in its last step and
\* one in its first
C32_Witness ==
    /\ served = 4
    /\ StepOf(sessions, "docs_test_001") = "confirmation"
    /\ StepOf(sessions, "docs_test_002") = "name"
    /\ sessions["docs_test_001"].name # ""
    /\ users_db = <<>>

\* two texts equal up to the case of their letters
SameIgnoringCase(a, b) ==
    /\ Len(a) = Len(b)
    /\ \A i \in 1..Len(a) :
         \/ SubSeq(a, i, i) = SubSeq(b, i, i)
         \/ \E j \in 1..Len(UpperChars) :
              {SubSeq(a, i, i), SubSeq(b, i, i)}
                = {SubSeq(UpperChars, j, j), SubSeq(LowerChars, j, j)}

\* the positions of the registry whose location is the queried one up to case
MatchingPositions(location) ==
    {i \in 1..Len(users_db) : SameIgnoringCase(users_db[i].location, location)}

(* C33. Lookup by location returns exactly the registered users whose       *)
(* location equals the queried text ignoring letter case (no partial        *)
(* matches), in the registry's insertion order; a query that differs only   *)
(* in case returns the same users.                                          *)
C33_LookupByLocation ==
    \A location \in AlertLocations :
      LET found == get_users_by_location(users_db, location)
      IN /\ Len(found) = Cardinality(MatchingPositions(location))
         /\ \A n \in 1..Len(found) :
              \E i \in MatchingPositions(location) :
                /\ found[n] = users_db[i]
                /\ Cardinality({j \in MatchingPositions(location) : j < i}) = n - 1
         /\ get_users_by_location(users_db, Upper(location)) = found
         /\ get_users_by_location(users_db, Lower(location)) = found

\* the upper-case query answered with the two users registered under
\* "Westlands" and "westlands", in the order they were registered
C33_Witness ==
    /\ api.endpoint = "/users/location"
    /\ api.location = "WESTLANDS"
    /\ Len(api.users) = 2
    /\ api.users[1].location = "Westlands"
    /\ api.users[2].location = "westlands"
    /\ Len(users_db) > 2

(* C34, as claimed. A location alert to a location without registered users *)
(* makes no gateway call and returns status 'warning' with sent_count 0;    *)
(* for a location with users, sent_count is the number of users matching    *)
(* the location.                                                            *)
C34_SentCountIsMatchCount ==
    \A location \in AlertLocations, message \in AlertMessages, gw \in GatewayBehaviours :
      LET result == send_alert_to_location(users_db, location, message, gw)
          users_in_location == get_users_by_location(users_db, location)
      IN /\ users_in_location = <<>>
              => /\ result.calls = <<>>
                 /\ result.status = "warning"
                 /\ result.sent_count = 0
         /\ users_in_location # <<>>
              => result.sent_count = Len(users_in_location)

(* C34, amended. A location alert to a location without registered users    *)
(* makes no gateway call and returns status 'warning' with sent_count 0;    *)
(* for a location with users, sent_count is the number of users matching    *)
(* the location when the gateway accepts the send (status 'success'), and   *)
(* 0 with status 'error' when the send raises.                              *)
C34_SentCountIsMatchCountOnSuccess ==
    \A location \in AlertLocations, message \in AlertMessages, gw \in GatewayBehaviours :
      LET result == send_alert_to_location(users_db, location, message, gw)
          users_in_location == get_users_by_location(users_db, location)
      IN /\ users_in_location = <<>>
              => /\ result.calls = <<>>
                 /\ result.status = "warning"
                 /\ result.sent_count = 0
         /\ (users_in_location # <<>> /\ gw = "ok")
              => /\ result.status = "success"
                 /\ result.sent_count = Len(users_in_location)
                 /\ Len(result.calls) = 1
                 /\ Len(result.calls[1].recipients) = Len(users_in_location)
         /\ (users_in_location # <<>> /\ gw = "raise")
              => /\ result.status = "error"
                 /\ result.sent_count = 0

\* an alert to the two users of Westlands whose send raised
C34_Witness ==
    /\ api.endpoint = "/send-location-alert"
    /\ api.status = "error"
    /\ api.sent_count = 0
    /\ Len(api.calls) = 1
    /\ Len(api.calls[1].recipients) = 2
    /\ Len(get_users_by_location(users_db, api.location)) = 2

\* a stored entry as the wizard leaves it
WellFormedEntry(entry) ==
    /\ DOMAIN entry \subseteq {"flow", "step", "phone", "name", "location"}
    /\ Has(entry, "flow") /\ entry["flow"] = "registration"
    /\ Has(entry, "step") /\ entry["step"] \in {"name", "location", "confirmation"}
    /\ Has(entry, "phone") /\ entry["phone"] \in AllPhones
    /\ Has(entry, "name") <=> entry["step"] \in {"location", "confirmation"}
    /\ Has(entry, "location") <=> entry["step"] = "confirmation"
    /\ Has(entry, "name")
         => /\ entry["name"] # ""
            /\ SubSeq(entry["name"], 1, 1) # " "
            /\ SubSeq(entry["name"], Len(entry["name"]), Len(entry["name"])) # " "
    /\ Has(entry, "location")
         => /\ entry["location"] # ""
            /\ SubSeq(entry["location"], 1, 1) # " "
            /\ SubSeq(entry["location"], Len(entry["location"]), Len(entry["location"])) # " "

(* C35. Session-store well-formedness: in every reachable state, and after  *)
(* every further request, each stored entry has flow = registration, a step *)
(* of name, location or confirmation and the phone of the request that      *)
(* entered the wizard; a non-blank trimmed name is stored exactly when the  *)
(* step is location or confirmation, and a non-blank trimmed location       *)
(* exactly when the step is confirmation.                                   *)
C35_SessionStoreWellFormed ==
    /\ \A s \in DOMAIN sessions : WellFormedEntry(sessions[s])
    /\ \A sessionId \in AllSessionIds, phoneNumber \in AllPhones, text \in WizardTexts,
          now \in Clock, gw \in GatewayBehaviours :
         LET out == ussd_handler(Shared, sessionId, phoneNumber, text, now, gw)
         IN /\ \A s \in DOMAIN out.sessions : WellFormedEntry(out.sessions[s])
            /\ (~Has(sessions, sessionId) /\ Has(out.sessions, sessionId))
                 => out.sessions[sessionId]["phone"] = phoneNumber
            /\ (Has(sessions, sessionId) /\ Has(out.sessions, sessionId))
                 => out.sessions[sessionId]["phone"] = sessions[sessionId]["phone"]

\* a wizard in its confirmation step with both fields stored
C35_Witness ==
    /\ served = 3
    /\ StepOf(sessions, "docs_test_001") = "confirmation"
    /\ sessions["docs_test_001"]["name"] = "Alice"
    /\ sessions["docs_test_001"]["location"] = "Nairobi"
    /\ sessions["docs_test_001"]["phone"] = "+254712345678"

(* C36. The wizard commits for the phone that started it: when a request    *)
(* takes a session out of the confirmation step and writes the registry,    *)
(* the registry then holds a record for the phone stored in the session at  *)
(* the wizard's entry, and the record of no other phone is written,         *)
(* whatever phone the later requests of the session carry.                  *)
C36_CommitsForEnteringPhone ==
    [][ \A s \in DOMAIN sessions :
          ( /\ StepOf(sessions, s) = "confirmation"
            /\ ~Has(sessions', s)
            /\ users_db' # users_db )
          => /\ InUsers(users_db', sessions[s]["phone"])
             /\ \A p \in AllPhones \ {sessions[s]["phone"]} :
                  RecordOf(users_db', p) = RecordOf(users_db, p) ]_vars

\* menu requests of every kind: roots, options, types, back, cancel, confirm,
\* invalid input
StatelessTexts ==
    {"", "0", "1", "2", "3", "4", "9", "1*1", "1*4", "1*0", "1*9", "4*0", "2*1",
     "1*1*1", "1*4*1", "1*1*2", "1*1*0", "1*9*1", "3*0*1", "1*1*1*1"}

GoneWithinThree(sessionId, phoneNumber) ==
    \A option \in {"1", "2", "0"}, now \in Clock :
      LET input(S) == CASE StepOf(S.sessions, sessionId) = "name" -> "Alice"
                        [] StepOf(S.sessions, sessionId) = "location" -> "Nairobi"
                        [] OTHER -> option
          o1 == ussd_handler(Shared, sessionId, phoneNumber, input(Shared), now, "ok")
          o2 == IF Has(o1.sessions, sessionId)
                THEN ussd_handler(After(o1), sessionId, phoneNumber, input(After(o1)),
                                  now, "ok")
                ELSE o1
          o3 == IF Has(o2.sessions, sessionId)
                THEN ussd_handler(After(o2), sessionId, phoneNumber, input(After(o2)),
                                  now, "ok")
                ELSE o2
      IN ~Has(o3.sessions, sessionId)

(* C38. Every wizard session can finish: from every reachable state with an *)
(* active registration flow, a caller who keeps sending requests and sooner *)
(* or later sends a non-blank answer in the name and location steps and     *)
(* "1", "2" or "0" in the confirmation step reaches a state in which the    *)
(* session has no stored entry, after at most three inputs the steps take;  *)
(* no wizard state is a dead end.                                           *)
C38_WizardFinishes ==
    /\ [](\A dial \in TesterDials :
            Has(sessions, dial.sessionId)
              => GoneWithinThree(dial.sessionId, dial.phoneNumber))
    /\ \A dial \in TesterDials :
         Has(sessions, dial.sessionId) ~> ~Has(sessions, dial.sessionId)

\* a wizard that went through its steps and was cancelled: no entry left
C38_Witness ==
    /\ served = 0
    /\ response = "END Registration cancelled."
    /\ ~Has(sessions, "test_session_12345")
    /\ users_db = <<>>

=============================================================================
